---- MODULE Spec2Model ----
(***************************************************************************)
(* The prediction / explanation / recommendation pipeline of the churn     *)
(* demo: src/src/predict.py, src/src/explain.py, src/src/recommend.py and  *)
(* the page that chains them, src/ui/pages/predict.py.                     *)
(*                                                                         *)
(* Numbers.  Probabilities are counted in 1/10000 (0.70 is 7000, 0.6999 is *)
(* 6999).  Raw feature values are counted in hundredths (29.99 is 2999,    *)
(* 2.5 is 250, 45 is 4500) and so are scaled values and coefficients;     *)
(* contributions and base values are counted in 1/10000 (a coefficient    *)
(* times a scaled value).  Every comparison and every ordering of the      *)
(* source is kept.                                                         *)
(*                                                                         *)
(* A call of the pipeline is modelled with the call in hand: its arguments *)
(* and what it returned, until the caller is done with them.  What outlives*)
(* a call is state of its own: the tables of recommend.py, the loaded      *)
(* artifacts, the caller's record, and the fields of the upload page, the  *)
(* batch result page (ui/pages/upload.py, ui/pages/upload_result.py) and   *)
(* the gauge (ui/components/widgets.py).                                   *)
(***************************************************************************)
EXTENDS Integers, Sequences, FiniteSets, TLC

VARIABLES
    last_call,            \* the function that ran last ("idle": none in hand)
    customer_data,        \* the record it was given (a dict: feature -> raw value)
    churn_probability,    \* the probability given to the recommender
    top_factors,          \* the top_factors given to the recommender
    classifier,           \* the classifier given to the predictor or the explainer
    features_arg,         \* the scaled vector given to the explainer
    feature_names_arg,    \* the feature_names given to the explainer
    original_arg,         \* the original_values given to the explainer
    prediction,           \* what predict_churn returned
    explanation,          \* what explain_prediction returned
    recommendation,       \* what generate_full_recommendation returned
    merge_prioritized,    \* recommend.py:158-163, the list before the merge
    merge_suggested,      \* base_rec['suggested_actions'] before the merge
    merge_unique,         \* recommend.py:167, the merged list
    level,                \* what get_risk_level returned
    key_order,            \* the keys of customer_data in insertion order
    record_after,         \* the caller's customer_data dict once the call is over
    encoded,              \* what preprocess_customer_data returned
    tables,               \* recommend.py's module dicts, as they are now
    artifacts,            \* the encoders and feature_names loaded at start
    fitted,               \* what the fitted classifier gives for the record's vector
    first_results,        \* what the first call of each function returned
    returned_lists,       \* the list object under each list key of recommendation
    session_log,          \* the calls made on the loaded pipeline so far
    result_data,          \* UploadResultPage.result_data
    filtered_data,        \* UploadResultPage.filtered_data
    current_filter,       \* UploadResultPage.current_filter
    uploaded_file,        \* UploadPage.uploaded_file
    loaded_data,          \* the table load_file read, as it was read
    prediction_results,   \* UploadPage.prediction_results
    batch,                \* what the last process_file did
    current_value,        \* AnimatedGauge.current_value
    target_value,         \* AnimatedGauge.target_value
    animation_id,         \* AnimatedGauge.animation_id
    timers,               \* the after() callbacks Tk holds, not yet run
    commands,             \* how many animate_to and reset calls were made
    stale_ran,            \* a callback ran that was scheduled before the last command
    cancelled             \* how many callbacks after_cancel has dropped

inHandVars == <<customer_data, churn_probability, top_factors, classifier,
                features_arg, feature_names_arg, original_arg, prediction,
                explanation, recommendation, merge_prioritized, merge_suggested,
                merge_unique, level, key_order, record_after, encoded>>

sessionVars == <<tables, artifacts, fitted, first_results, returned_lists,
                 session_log>>

resultPageVars == <<result_data, filtered_data, current_filter>>

uploadVars == <<uploaded_file, loaded_data, prediction_results, batch>>

gaugeVars == <<current_value, target_value, animation_id, timers, commands,
               stale_ran, cancelled>>

vars == <<last_call, inHandVars, sessionVars, resultPageVars, uploadVars, gaugeVars>>

(***************************************************************************)
(* recommend.py: the static tables                                         *)
(***************************************************************************)
CHURN_RECOMMENDATIONS ==
    [l \in {"HIGH", "MODERATE", "LOW"} |->
        CASE l = "HIGH" ->
               [urgency |-> "URGENT",
                base_action |-> "Immediate retention intervention required",
                actions |-> <<"Offer personalized discount (20-30% off)",
                              "Assign dedicated account manager",
                              "Send personalized re-engagement email",
                              "Offer free premium features trial">>]
          [] l = "MODERATE" ->
               [urgency |-> "MODERATE",
                base_action |-> "Proactive engagement recommended",
                actions |-> <<"Send re-engagement notification",
                              "Offer limited-time discount (10-15% off)",
                              "Highlight new features via email",
                              "Invite to customer feedback survey">>]
          [] OTHER ->
               [urgency |-> "LOW",
                base_action |-> "Standard customer maintenance",
                actions |-> <<"Continue regular engagement",
                              "Include in loyalty rewards program",
                              "Send monthly newsletter",
                              "No immediate action required">>]]

\* The keys of FACTOR_RECOMMENDATIONS in the order the dict literal gives them,
\* which is the order .items() iterates.
FactorFeatures ==
    <<"last_login_days", "login_frequency", "watch_time", "payment_failures",
      "customer_support_calls", "tenure_in_months", "monthly_charges">>

\* rec_info['condition'](x), x in hundredths.
ConditionLoose(feature, x) ==
    CASE feature = "last_login_days"        -> x >= 1400
      [] feature = "login_frequency"        -> x <= 500
      [] feature = "watch_time"             -> x <= 1000
      [] feature = "payment_failures"       -> x >= 0
      [] feature = "customer_support_calls" -> x >= 300
      [] feature = "tenure_in_months"       -> x <= 600
      [] feature = "monthly_charges"        -> x >= 2500
      [] OTHER -> FALSE

ConditionTenureReversed(feature, x) ==
    CASE feature = "last_login_days"        -> x > 1400
      [] feature = "login_frequency"        -> x < 500
      [] feature = "watch_time"             -> x < 1000
      [] feature = "payment_failures"       -> x > 0
      [] feature = "customer_support_calls" -> x > 300
      [] feature = "tenure_in_months"       -> x > 600
      [] feature = "monthly_charges"        -> x > 2500
      [] OTHER -> FALSE

Condition(feature, x) ==
    CASE feature = "last_login_days"        -> x > 1400
      [] feature = "login_frequency"        -> x < 500
      [] feature = "watch_time"             -> x < 1000
      [] feature = "payment_failures"       -> x > 0
      [] feature = "customer_support_calls" -> x > 300
      [] feature = "tenure_in_months"       -> x < 600
      [] feature = "monthly_charges"        -> x > 2500
      [] OTHER -> FALSE

FactorActionSharedWithBase(feature) ==
    CASE feature = "last_login_days" ->
           "Send \"We miss you\" email with exclusive content"
      [] feature = "login_frequency" ->
           "Recommend personalized content based on past preferences"
      [] feature = "watch_time" ->
           "Send curated content recommendations to boost engagement"
      [] feature = "payment_failures" ->
           "Reach out to resolve payment issues and offer alternative payment methods"
      [] feature = "customer_support_calls" ->
           "Proactive outreach to resolve ongoing issues"
      [] feature = "tenure_in_months" ->
           "Onboarding follow-up to ensure customer is getting value"
      [] OTHER ->
           "Include in loyalty rewards program"

FactorAction(feature) ==
    CASE feature = "last_login_days" ->
           "Send \"We miss you\" email with exclusive content"
      [] feature = "login_frequency" ->
           "Recommend personalized content based on past preferences"
      [] feature = "watch_time" ->
           "Send curated content recommendations to boost engagement"
      [] feature = "payment_failures" ->
           "Reach out to resolve payment issues and offer alternative payment methods"
      [] feature = "customer_support_calls" ->
           "Proactive outreach to resolve ongoing issues"
      [] feature = "tenure_in_months" ->
           "Onboarding follow-up to ensure customer is getting value"
      [] OTHER ->
           "Highlight value proposition and premium benefits"

FactorReason(feature) ==
    CASE feature = "last_login_days" -> "Customer has not logged in recently"
      [] feature = "login_frequency" -> "Low engagement - customer rarely logs in"
      [] feature = "watch_time" -> "Low content consumption"
      [] feature = "payment_failures" -> "Payment problems detected"
      [] feature = "customer_support_calls" ->
           "Multiple support interactions indicate frustration"
      [] feature = "tenure_in_months" -> "New customer - critical retention period"
      [] OTHER -> "High subscription cost may affect retention"

\* FACTOR_RECOMMENDATIONS, the strings of each rule; the condition of a rule is
\* a lambda, which nothing can assign to, and stays the operator above.
FACTOR_RECOMMENDATIONS ==
    [feature \in {FactorFeatures[i] : i \in 1..Len(FactorFeatures)} |->
        [reason |-> FactorReason(feature), action |-> FactorAction(feature)]]

(***************************************************************************)
(* Python's dict and list operations, as the code uses them                *)
(***************************************************************************)
\* What a call that may raise gives back: the value it returned, or the
\* exception that left it.
Returned(v) == [raised |-> "None", value |-> v]
Raised(e) == [raised |-> e, value |-> <<>>]

\* d[k] raises KeyError when the key is absent.
SubscriptRaises(d, k) == k \notin DOMAIN d

\* d.get(k) == x for an x that is not None: the key is there and holds x.
DictGetIs(d, k, x) == k \in DOMAIN d /\ d[k] = x

\* An optional list argument: None, or a list.
NoList == [is_none |-> TRUE, items |-> <<>>]
List(s) == [is_none |-> FALSE, items |-> s]

Range(s) == {s[i] : i \in 1..Len(s)}

\* s[:n] for n >= 0.
Take(s, n) == SubSeq(s, 1, IF n < Len(s) THEN n ELSE Len(s))

\* list.insert(0, x)
InsertFront(s, x) == <<x>> \o s

\* list(dict.fromkeys(s)): every element once, at the place of its first occurrence.
RECURSIVE DictFromKeysFrom(_, _, _)
DictFromKeysFrom(s, i, acc) ==
    IF i > Len(s) THEN acc
    ELSE DictFromKeysFrom(s, i + 1,
             IF s[i] \in Range(acc) THEN acc ELSE Append(acc, s[i]))

KeepLastOccurrence(s) ==
    LET keep == {i \in 1..Len(s) : \A j \in (i + 1)..Len(s) : s[j] # s[i]}
        F[i \in 0..Len(s)] ==
            IF i = 0 THEN <<>>
            ELSE IF i \in keep THEN Append(F[i - 1], s[i]) ELSE F[i - 1]
    IN  F[Len(s)]

DictFromKeys(s) == DictFromKeysFrom(s, 1, <<>>)

(***************************************************************************)
(* recommend.py: get_risk_level, get_base_recommendation                   *)
(***************************************************************************)
get_risk_level_exclusive(p) ==
    IF p > 7000 THEN "HIGH"
    ELSE IF p > 4000 THEN "MODERATE"
    ELSE "LOW"

get_risk_level(p) ==
    IF p >= 7000 THEN "HIGH"
    ELSE IF p >= 4000 THEN "MODERATE"
    ELSE "LOW"

get_base_recommendation(p) ==
    LET risk_level == get_risk_level(p)
        rec == tables.CHURN_RECOMMENDATIONS[risk_level]
    IN  [risk_level |-> risk_level,
         urgency |-> rec.urgency,
         primary_action |-> rec.base_action,
         suggested_actions |-> rec.actions,
         churn_probability |-> p]

(***************************************************************************)
(* recommend.py: get_factor_specific_recommendations                       *)
(***************************************************************************)
FeatureInAlways(feature, d) == TRUE

\* feature in customer_data
FeatureIn(feature, d) == feature \in DOMAIN d

\* top_factors is not None and feature in [f.get('feature') for f in top_factors]
IsTopFactor(feature, tf) ==
    /\ ~tf.is_none
    /\ \E i \in 1..Len(tf.items) : DictGetIs(tf.items[i], "feature", feature)

\* The loop of lines 121-131 from the i-th rule on.
RECURSIVE CollectFrom(_, _, _, _)
CollectFrom(i, d, tf, acc) ==
    IF i > Len(FactorFeatures) THEN Returned(acc)
    ELSE LET feature == FactorFeatures[i] IN
         IF ~FeatureIn(feature, d) THEN CollectFrom(i + 1, d, tf, acc)
         ELSE IF SubscriptRaises(d, feature) THEN Raised("KeyError")
         ELSE LET value == d[feature] IN
              IF ~Condition(feature, value) THEN CollectFrom(i + 1, d, tf, acc)
              ELSE CollectFrom(i + 1, d, tf,
                       Append(acc, [feature |-> feature,
                                    value |-> value,
                                    reason |-> tables.FACTOR_RECOMMENDATIONS[feature].reason,
                                    action |-> tables.FACTOR_RECOMMENDATIONS[feature].action,
                                    is_top_factor |-> IsTopFactor(feature, tf)]))

\* The sort key (not x['is_top_factor'], -x.get('value', 0)), compared as Python
\* compares tuples: False before True, then the second component.
SortKeyLess(a, b) ==
    LET na == ~a.is_top_factor
        nb == ~b.is_top_factor
    IN  \/ (~na /\ nb)
        \/ (na = nb /\ (0 - a.value) < (0 - b.value))

\* list.sort is stable: an element goes after every element not greater than it.
SortedInsert(s, r) ==
    LET n == Cardinality({i \in 1..Len(s) : ~SortKeyLess(r, s[i])})
    IN  SubSeq(s, 1, n) \o <<r>> \o SubSeq(s, n + 1, Len(s))

RECURSIVE SortFrom(_, _, _)
SortFrom(s, i, acc) ==
    IF i > Len(s) THEN acc ELSE SortFrom(s, i + 1, SortedInsert(acc, s[i]))

SortRecommendations(s) == SortFrom(s, 1, <<>>)

get_factor_specific_recommendations(d, tf) ==
    LET recommendations == CollectFrom(1, d, tf, <<>>)
    IN  IF recommendations.raised # "None" THEN recommendations
        ELSE Returned(SortRecommendations(recommendations.value))

(***************************************************************************)
(* recommend.py: generate_full_recommendation                              *)
(***************************************************************************)
\* The loop of lines 158-163 from the i-th factor recommendation on.
RECURSIVE PrioritizeFrom(_, _, _)
PrioritizeFrom(factor_recs, i, prioritized_actions) ==
    IF i > Len(factor_recs) THEN prioritized_actions
    ELSE PrioritizeFrom(factor_recs, i + 1,
             IF factor_recs[i].is_top_factor
             THEN InsertFront(prioritized_actions, factor_recs[i].action)
             ELSE Append(prioritized_actions, factor_recs[i].action))

PrioritizedActions(factor_recs) == PrioritizeFrom(factor_recs, 1, <<>>)

\* all_actions = prioritized_actions + base_rec['suggested_actions']
CombineBaseFirst(prioritized_actions, suggested_actions) ==
    suggested_actions \o prioritized_actions

Combine(prioritized_actions, suggested_actions) ==
    prioritized_actions \o suggested_actions

TopFour(unique_actions) == Take(unique_actions, 4)

\* unique_actions[:5]
TopFive(unique_actions) == Take(unique_actions, 5)

\* The f-string of lines 171-176: its template; the digits of the percentage
\* are left out.
Summary(risk_level) ==
    CASE risk_level = "HIGH" -> "ALERT"
      [] risk_level = "MODERATE" -> "CAUTION"
      [] OTHER -> "OK"

generate_full_recommendation(p, d, tf) ==
    LET base_rec == get_base_recommendation(p)
        factor_recs == get_factor_specific_recommendations(d, tf)
    IN  IF factor_recs.raised # "None" THEN [raised |-> factor_recs.raised]
        ELSE
        LET prioritized_actions == PrioritizedActions(factor_recs.value)
            unique_actions ==
                DictFromKeys(Combine(prioritized_actions, base_rec.suggested_actions))
        IN  [raised |-> "None",
             summary |-> Summary(base_rec.risk_level),
             risk_level |-> base_rec.risk_level,
             urgency |-> base_rec.urgency,
             churn_probability |-> p,
             primary_action |-> base_rec.primary_action,
             recommended_actions |-> TopFive(unique_actions),
             factor_insights |-> factor_recs.value,
             all_suggested_actions |-> unique_actions]

(***************************************************************************)
(* predict.py: load_model_and_encoders                                     *)
(***************************************************************************)
\* The three files load_model_and_encoders reads from the model directory.
ArtifactFiles == {"churn_model.pkl", "encoder.pkl", "feature_names.pkl"}

\* Lines 12-32, `files` being the files that exist: the model file is tested
\* with os.path.exists and the other two are opened by joblib.load; each is a
\* FileNotFoundError when the file is absent.  model, encoders and names are
\* what the files hold.
load_model_and_encoders(files, model, encoders, names) ==
    IF "churn_model.pkl" \notin files THEN Raised("FileNotFoundError")
    ELSE IF "encoder.pkl" \notin files THEN Raised("FileNotFoundError")
    ELSE IF "feature_names.pkl" \notin files THEN Raised("FileNotFoundError")
    ELSE Returned([model |-> model, encoders |-> encoders, feature_names |-> names])

(***************************************************************************)
(* predict.py: preprocess_customer_data                                    *)
(***************************************************************************)
\* A Python dict: its keys in insertion order, the value under each key, and
\* `assigned`, the keys whose value is no longer the label the caller put there
\* but the integer code an encoder's transform gave for it.
PyDict(order, map) == [order |-> order, map |-> map, assigned |-> {}]

\* LabelEncoder.transform([label])[0]: the label's place in classes_, from 0.
LabelIndex(classes, label) ==
    (CHOOSE i \in 1..Len(classes) : classes[i] = label) - 1

\* LabelEncoder.transform raises ValueError for a label it was not fit on.
LabelUnseen(classes, label) == \A i \in 1..Len(classes) : classes[i] # label

\* StandardScaler.transform on one row, (x - mean_) / scale_ position by
\* position, in hundredths (the quotient is cut to the hundredth).
ScalerTransform(scaler, row) ==
    [i \in 1..Len(row) |-> ((row[i] - scaler.mean_[i]) * 100) \div scaler.scale_[i]]

\* The dict objects of a call: the caller's customer_data and, once made, the
\* copy; `data` names the object the local variable data is bound to.
DictAlias(d) ==
    [data |-> "customer_data", objects |-> [customer_data |-> d, copy |-> d]]

\* data = customer_data.copy() (line 48): a new dict with the same keys, in the
\* same order, holding the same values.
DictCopy(d) ==
    [data |-> "copy", objects |-> [customer_data |-> d, copy |-> d]]

\* The dict the local variable data is bound to.
Data(env) == env.objects[env.data]

\* data[k] = v for a key data has and a code v: the order of the keys stays.
SetItem(env, k, v) ==
    [env EXCEPT !.objects[env.data].map[k] = v,
                !.objects[env.data].assigned = @ \cup {k}]

\* Lines 51-52 and 54-55: if k in data: data[k] = encoders[k].transform([data[k]])[0].
\* Codes are counted in hundredths like every other value.  A value that is
\* already a code is none of the labels of classes_, which are strings.
EncodeField(env, k, classes) ==
    IF k \notin DOMAIN Data(env).map THEN Returned(env)
    ELSE IF k \in Data(env).assigned THEN Raised("ValueError")
    ELSE IF LabelUnseen(classes, Data(env).map[k]) THEN Raised("ValueError")
    ELSE Returned(SetItem(env, k, 100 * LabelIndex(classes, Data(env).map[k])))

\* [data[fname] for fname in feature_names] (line 58), and a row made from the
\* dict's values in the order of its keys.
FeatureRowByKeyOrder(data, names) ==
    [i \in 1..Len(data.order) |-> data.map[data.order[i]]]

FeatureRow(data, names) == [i \in 1..Len(names) |-> data.map[names[i]]]

\* The caller's dict as a call leaves it.
CallerDict(env) == env.objects.customer_data

\* What a call that was given the caller's dict leaves: how it ended, the value
\* it returned and the caller's dict afterwards.
Outcome(raised, value, env) ==
    [raised |-> raised, value |-> value, customer_data |-> CallerDict(env)]

preprocess_customer_data(d, encoders, names) ==
    LET copied == DictCopy(d)
        gender == EncodeField(copied, "gender", encoders.gender)
    IN  IF gender.raised # "None" THEN Outcome(gender.raised, <<>>, copied)
        ELSE
        LET subscription ==
                EncodeField(gender.value, "subscription_type",
                            encoders.subscription_type)
        IN  IF subscription.raised # "None"
            THEN Outcome(subscription.raised, <<>>, gender.value)
            ELSE
            LET env == subscription.value
                data == Data(env)
            IN  IF \E i \in 1..Len(names) : SubscriptRaises(data.map, names[i])
                THEN Outcome("KeyError", <<>>, env)
                ELSE LET features == FeatureRow(data, names)
                     IN  [raised |-> "None",
                          value |-> ScalerTransform(encoders.scaler, features),
                          features |-> features,
                          customer_data |-> CallerDict(env)]

(***************************************************************************)
(* predict.py: predict_churn                                               *)
(***************************************************************************)
\* Lines 97-102.
RiskLevelExclusive(p) ==
    IF p > 7000 THEN "HIGH"
    ELSE IF p > 4000 THEN "MODERATE"
    ELSE "LOW"

RiskLevel(p) ==
    IF p >= 7000 THEN "HIGH"
    ELSE IF p >= 4000 THEN "MODERATE"
    ELSE "LOW"

\* Lines 89-94: the probability of class 1 when the model has predict_proba,
\* else the label itself as a float.
ChurnProbabilityHalf(model, label, proba) ==
    IF model.has_predict_proba THEN proba ELSE 5000

ChurnProbability(model, label, proba) ==
    IF model.has_predict_proba THEN proba ELSE 10000 * label

\* predict_churn once the artifacts are at hand (lines 83-110).  The classifier
\* is the library's: `label` is what model.predict gave for the vector and
\* `proba` what model.predict_proba gave for class 1.  The result carries, beside
\* the keys of the returned dict, the caller's dict as the call leaves it.
predict_with(d, model, encoders, names, label, proba) ==
    LET features == preprocess_customer_data(d, encoders, names)
    IN  IF features.raised # "None"
        THEN [raised |-> features.raised, customer_data |-> features.customer_data]
        ELSE
        LET p == ChurnProbability(model, label, proba)
        IN  [raised |-> "None",
             prediction |-> label,
             prediction_label |-> IF label = 1 THEN "Churn" ELSE "Stay",
             churn_probability |-> p,
             stay_probability |-> 10000 - p,
             risk_level |-> RiskLevel(p),
             customer_data |-> features.customer_data]

\* A dict no key of which was assigned to.
Untouched(d) == [order |-> d.order, map |-> d.map, assigned |-> {}]

\* predict_churn (lines 79-110): `passed` says whether model, encoders and
\* feature_names were all given; when one is None all three are loaded, from
\* the files that exist.
predict_churn(d, passed, files, model, encoders, names, label, proba) ==
    IF passed THEN predict_with(d, model, encoders, names, label, proba)
    ELSE LET loaded == load_model_and_encoders(files, model, encoders, names)
         IN  IF loaded.raised # "None"
             THEN [raised |-> loaded.raised, customer_data |-> Untouched(d)]
             ELSE predict_with(d, loaded.value.model, loaded.value.encoders,
                               loaded.value.feature_names, label, proba)

\* The dict a call returned, without the caller's own dict.
ReturnedDict(r) == [k \in DOMAIN r \ {"customer_data"} |-> r[k]]

(***************************************************************************)
(* explain.py: explain_prediction                                          *)
(***************************************************************************)
\* FEATURE_DESCRIPTIONS.get(fname, {'name': fname})['name']
DisplayName(fname) ==
    CASE fname = "age" -> "Age"
      [] fname = "gender" -> "Gender"
      [] fname = "subscription_type" -> "Subscription Type"
      [] fname = "monthly_charges" -> "Monthly Charges"
      [] fname = "tenure_in_months" -> "Account Tenure"
      [] fname = "login_frequency" -> "Login Frequency"
      [] fname = "last_login_days" -> "Days Since Last Login"
      [] fname = "watch_time" -> "Watch Time"
      [] fname = "payment_failures" -> "Payment Failures"
      [] fname = "customer_support_calls" -> "Support Calls"
      [] OTHER -> fname

\* feature_info.get('unit', '')
Unit(fname) ==
    CASE fname = "age" -> "years"
      [] fname = "monthly_charges" -> "$"
      [] fname = "tenure_in_months" -> "months"
      [] fname = "login_frequency" -> "logins/month"
      [] fname = "last_login_days" -> "days"
      [] fname = "watch_time" -> "hours/month"
      [] fname = "payment_failures" -> "failures"
      [] fname = "customer_support_calls" -> "calls"
      [] OTHER -> ""

Abs(x) == IF x < 0 THEN 0 - x ELSE x

Min(a, b) == IF a < b THEN a ELSE b

\* Lines 112-145: the contribution vector and the base value, by model type.
\* `shap` is what the library's TreeExplainer gave (values, base value) and is
\* read for a random forest only.
ShapValuesChurnFallbackScaled(customer_features, model, shap) ==
    IF model.type = "LogisticRegression"
    THEN [i \in 1..Len(customer_features) |-> model.coef_[i] * customer_features[i]]
    ELSE IF model.type = "RandomForestClassifier" THEN shap.values
    ELSE [i \in 1..Len(customer_features) |-> customer_features[i]]

ShapValuesChurn(customer_features, model, shap) ==
    IF model.type = "LogisticRegression"
    THEN [i \in 1..Len(customer_features) |-> model.coef_[i] * customer_features[i]]
    ELSE IF model.type = "RandomForestClassifier" THEN shap.values
    ELSE [i \in 1..Len(customer_features) |-> 100 * customer_features[i]]

BaseValue(model, shap) ==
    IF model.type = "LogisticRegression" THEN model.intercept_
    ELSE IF model.type = "RandomForestClassifier" THEN shap.base_value
    ELSE 5000

HasOriginalNever(original_values, fname) == FALSE

\* original_values and fname in original_values
HasOriginal(original_values, fname) ==
    /\ ~original_values.is_none
    /\ DOMAIN original_values.dict # {}
    /\ fname \in DOMAIN original_values.dict

FeatureImportanceEntryZeroIncreases(i, fname, shap_val, customer_features, original_values) ==
    LET orig_val == IF HasOriginal(original_values, fname)
                    THEN original_values.dict[fname]
                    ELSE customer_features[i]
        impact == IF shap_val >= 0 THEN "increases" ELSE "decreases"
        impact_direction == IF shap_val >= 0 THEN "+" ELSE "-"
    IN  [feature |-> fname,
         display_name |-> DisplayName(fname),
         shap_value |-> shap_val,
         abs_shap_value |-> Abs(shap_val),
         impact_direction |-> impact_direction,
         value |-> orig_val,
         explanation |-> [name |-> DisplayName(fname), value |-> orig_val,
                          unit |-> Unit(fname), impact |-> impact]]

\* One pass of the loop of lines 149-183.
FeatureImportanceEntry(i, fname, shap_val, customer_features, original_values) ==
    LET orig_val == IF HasOriginal(original_values, fname)
                    THEN original_values.dict[fname]
                    ELSE customer_features[i]
        impact == IF shap_val > 0 THEN "increases" ELSE "decreases"
        impact_direction == IF shap_val > 0 THEN "+" ELSE "-"
    IN  [feature |-> fname,
         display_name |-> DisplayName(fname),
         shap_value |-> shap_val,
         abs_shap_value |-> Abs(shap_val),
         impact_direction |-> impact_direction,
         value |-> orig_val,
         explanation |-> [name |-> DisplayName(fname), value |-> orig_val,
                          unit |-> Unit(fname), impact |-> impact]]

\* zip(feature_names, shap_values_churn) stops at the shorter of the two.
FeatureImportance(customer_features, names, shap_values_churn, original_values) ==
    [i \in 1..Min(Len(names), Len(shap_values_churn)) |->
        FeatureImportanceEntry(i, names[i], shap_values_churn[i],
                               customer_features, original_values)]

\* feature_importance.sort(key=lambda x: x['abs_shap_value'], reverse=True):
\* stable, so an element goes after every element whose key is not smaller.
ImportanceInsertAscending(s, e) ==
    LET n == Cardinality({i \in 1..Len(s) : s[i].abs_shap_value <= e.abs_shap_value})
    IN  SubSeq(s, 1, n) \o <<e>> \o SubSeq(s, n + 1, Len(s))

ImportanceInsertBeforeEqual(s, e) ==
    LET n == Cardinality({i \in 1..Len(s) : s[i].abs_shap_value > e.abs_shap_value})
    IN  SubSeq(s, 1, n) \o <<e>> \o SubSeq(s, n + 1, Len(s))

ImportanceInsert(s, e) ==
    LET n == Cardinality({i \in 1..Len(s) : s[i].abs_shap_value >= e.abs_shap_value})
    IN  SubSeq(s, 1, n) \o <<e>> \o SubSeq(s, n + 1, Len(s))

RECURSIVE SortImportanceFrom(_, _, _)
SortImportanceFrom(s, i, acc) ==
    IF i > Len(s) THEN acc
    ELSE SortImportanceFrom(s, i + 1, ImportanceInsert(acc, s[i]))

SortImportance(s) == SortImportanceFrom(s, 1, <<>>)

\* feature_importance[:3]
TopThree(feature_importance) == Take(feature_importance, 3)

\* Lines 192-198: one summary per top factor (its sentence, the sign shown and
\* the magnitude).
Explanations(factors) ==
    [i \in 1..Len(factors) |->
        [explanation |-> factors[i].explanation,
         sign |-> IF factors[i].impact_direction = "+" THEN "+" ELSE "",
         impact |-> Abs(factors[i].shap_value)]]

explain_prediction(customer_features, model, names, original_values, shap) ==
    LET shap_values_churn == ShapValuesChurn(customer_features, model, shap)
        feature_importance ==
            SortImportance(FeatureImportance(customer_features, names,
                                             shap_values_churn, original_values))
        factors == TopThree(feature_importance)
    IN  [raised |-> "None",
         all_features |-> feature_importance,
         top_factors |-> factors,
         explanations |-> Explanations(factors),
         base_value |-> BaseValue(model, shap)]

(***************************************************************************)
(* The inputs the calls are tried on                                       *)
(***************************************************************************)
MaxTopFactors == 2
MaxFeatures == 4
MaxActions == 2
MaxCalls == 4
MaxRows == 3
MaxBatchRows == 2
MaxCommands == 3

\* Every probability, in steps of 0.0001.
AllProbabilities == 0..10000

\* Probabilities around both thresholds, the two of recommend.py's main() and
\* the ends of the range.
ProbValues == {0, 1200, 3999, 4000, 6999, 7000, 7800, 10000}

\* The sample customers of main() (predict.py:120-145, recommend.py:232-270)
\* and the form's defaults (ui/pages/predict.py:407-410).
high_risk_customer ==
    [age |-> 2500, gender |-> "Male", subscription_type |-> "Basic",
     monthly_charges |-> 1299, tenure_in_months |-> 200, login_frequency |-> 300,
     last_login_days |-> 4500, watch_time |-> 250, payment_failures |-> 200,
     customer_support_calls |-> 400]

low_risk_customer ==
    [age |-> 4500, gender |-> "Female", subscription_type |-> "Premium",
     monthly_charges |-> 2999, tenure_in_months |-> 4800, login_frequency |-> 2500,
     last_login_days |-> 100, watch_time |-> 4500, payment_failures |-> 0,
     customer_support_calls |-> 100]

default_customer ==
    [age |-> 3500, gender |-> "Male", subscription_type |-> "Standard",
     monthly_charges |-> 1999, tenure_in_months |-> 1200, login_frequency |-> 1500,
     last_login_days |-> 500, watch_time |-> 2000, payment_failures |-> 0,
     customer_support_calls |-> 100]

Restrict(d, keys) == [k \in keys |-> d[k]]

FactorFeatureSet == Range(FactorFeatures)

\* Records for the recommender: every rule feature present with the value of
\* one of the two samples, and every subset of the rule features of a sample.
RecommendRecords ==
    {[k \in FactorFeatureSet |->
         IF k \in hi THEN high_risk_customer[k] ELSE low_risk_customer[k]] :
       hi \in SUBSET FactorFeatureSet}
    \cup {Restrict(high_risk_customer, keys) : keys \in SUBSET FactorFeatureSet}
    \cup {Restrict(low_risk_customer, keys) : keys \in SUBSET FactorFeatureSet}

\* Features a caller may name in top_factors: three with a rule, one without.
TopFactorFeatures ==
    {"last_login_days", "payment_failures", "tenure_in_months", "age"}

RECURSIVE SeqsUpTo(_, _)
SeqsUpTo(S, n) ==
    IF n = 0 THEN {<<>>}
    ELSE LET shorter == SeqsUpTo(S, n - 1)
         IN  shorter \cup {Append(q, x) : q \in shorter, x \in S}

NoRepeat(q) == \A i, j \in 1..Len(q) : i # j => q[i] # q[j]

TopFactorLists ==
    {NoList} \cup
    {List([i \in 1..Len(q) |-> [feature |-> q[i]]]) :
        q \in {r \in SeqsUpTo(TopFactorFeatures, MaxTopFactors) : NoRepeat(r)}}

\* The artifacts: the order of the training columns (train_model.py:58, the
\* columns of generate_data.py:141-150), the two label encoders with their
\* classes in LabelEncoder's sorted order and a scaler (train_model.py:43-63).
FEATURE_NAMES ==
    <<"age", "gender", "subscription_type", "monthly_charges", "tenure_in_months",
      "login_frequency", "last_login_days", "watch_time", "payment_failures",
      "customer_support_calls">>

ENCODERS ==
    [gender |-> <<"Female", "Male">>,
     subscription_type |-> <<"Basic", "Premium", "Standard">>,
     scaler |-> [mean_ |-> <<4000, 50, 100, 1999, 2400, 1500, 1000, 2000, 50, 150>>,
                 scale_ |-> <<1200, 50, 80, 700, 2000, 800, 1200, 1500, 100, 150>>]]

\* Coefficient rows of a fitted LogisticRegression (coef_[0]), in hundredths:
\* both signs, a zero and equal magnitudes.
CoefRows ==
    {<<-10, 5, -20, 15, -60, -45, 80, -45, 90, 40>>,
     <<100, -100, 0, 200, -50, 50, 100, 0, -200, 100>>}

LogisticRegressions(width) ==
    {[type |-> "LogisticRegression", has_predict_proba |-> TRUE, has_coef_ |-> TRUE,
      coef_ |-> Take(row, width), intercept_ |-> -5000] : row \in CoefRows}

RandomForest ==
    [type |-> "RandomForestClassifier", has_predict_proba |-> TRUE,
     has_coef_ |-> FALSE, coef_ |-> <<>>, intercept_ |-> 0]

\* Classifiers explain_prediction has no branch for: another tree ensemble, a
\* linear classifier that is not LogisticRegression (it has coef_ and
\* intercept_, and no predict_proba) and a classifier that is neither.
OtherClassifiers(width) ==
    {[type |-> "GradientBoostingClassifier", has_predict_proba |-> TRUE,
      has_coef_ |-> FALSE, coef_ |-> <<>>, intercept_ |-> 0],
     [type |-> "KNeighborsClassifier", has_predict_proba |-> TRUE,
      has_coef_ |-> FALSE, coef_ |-> <<>>, intercept_ |-> 0]}
    \cup {[type |-> "LinearSVC", has_predict_proba |-> FALSE, has_coef_ |-> TRUE,
            coef_ |-> Take(row, width), intercept_ |-> -5000] : row \in CoefRows}

Classifiers(width) ==
    LogisticRegressions(width) \cup {RandomForest} \cup OtherClassifiers(width)

NoClassifier ==
    [type |-> "None", has_predict_proba |-> FALSE, has_coef_ |-> FALSE,
     coef_ |-> <<>>, intercept_ |-> 0]

\* Records for the predictor: the three complete ones, one with a gender the
\* encoder was not fit on, one without a training column.
PredictRecords ==
    {high_risk_customer, low_risk_customer, default_customer,
     [high_risk_customer EXCEPT !.gender = "Other"],
     Restrict(low_risk_customer, DOMAIN low_risk_customer \ {"age"})}

\* What TreeExplainer may give for a vector of the given width.
ShapLevels == {-100, 200}
NoShap == [values |-> <<>>, base_value |-> 0]

ShapResults(mdl, width) ==
    IF mdl.type = "RandomForestClassifier"
    THEN {[values |-> v, base_value |-> 5000] : v \in [1..width -> ShapLevels]}
    ELSE {NoShap}

\* Scaled values for the explainer called on its own.
ScaledLevels == {-100, 0, 200}

NoDict == [is_none |-> TRUE, dict |-> <<>>]
Dict(d) == [is_none |-> FALSE, dict |-> d]

OriginalValues == {NoDict, Dict(<<>>), Dict(high_risk_customer)}

\* What the form of the prediction page can hold when the samples are loaded
\* (ui/pages/predict.py:387-410); its two combo boxes are read-only.
PageRecords == {high_risk_customer, low_risk_customer, default_customer}

\* What TreeExplainer may give on the page, for the ten training columns.
PageShapRows ==
    {<<10, -20, 30, -40, 300, 200, 2500, -150, 1800, 0>>,
     <<0, 0, -100, 100, -100, 50, -50, 100, 0, 100>>}

PageShapResults(mdl) ==
    IF mdl.type = "RandomForestClassifier"
    THEN {[values |-> v, base_value |-> 5000] : v \in PageShapRows}
    ELSE {NoShap}

\* Action strings for the merge tried on lists of its own.
MergeStrings ==
    {FactorAction("payment_failures"), FactorAction("watch_time"),
     CHURN_RECOMMENDATIONS["LOW"].actions[1]}

NotCalled == [raised |-> "NotCalled"]

\* The keys of a dict literal that lists its keys in the order of the training
\* columns, as the samples of main() and get_customer_data
\* (ui/pages/predict.py:300-317) do.
LiteralOrder(d) ==
    LET Present(k) == k \in DOMAIN d
    IN  SelectSeq(FEATURE_NAMES, Present)

DictLiteral(d) == PyDict(LiteralOrder(d), d)

NoRecord == Untouched(PyDict(<<>>, <<>>))

\* Every order in which the keys of a dict can have been inserted.
Perms(S) == {q \in [1..Cardinality(S) -> S] : NoRepeat(q)}

\* Records for the preprocessor tried on its own: the samples cut to the first
\* columns, and one with a gender the encoder was not fit on.
EncodeRecords(names) ==
    {Restrict(r, Range(names)) :
        r \in PageRecords \cup {[high_risk_customer EXCEPT !.gender = "Other"]}}

(***************************************************************************)
(* The loaded pipeline: what outlives a call                               *)
(***************************************************************************)
\* The module dicts of recommend.py as the import leaves them.
StaticTables ==
    [CHURN_RECOMMENDATIONS |-> CHURN_RECOMMENDATIONS,
     FACTOR_RECOMMENDATIONS |-> FACTOR_RECOMMENDATIONS]

\* What load_model_and_encoders read at start, apart from the classifier.
LoadedArtifacts == [encoders |-> ENCODERS, feature_names |-> FEATURE_NAMES]

\* A list object: a list one of the tables holds, or a list a call built.
TableList(risk_level) == [owner |-> "CHURN_RECOMMENDATIONS", key |-> risk_level]
NewList(name) == [owner |-> "result", key |-> name]
NoLists == [recommended_actions |-> NewList("None"),
            all_suggested_actions |-> NewList("None")]

\* The list objects generate_full_recommendation returns (recommend.py:165-187),
\* and those of a version that hands out the list the table holds.
\* base_rec['suggested_actions'] is rec['actions'].copy() (line 103), and
\* a + b, list(...) and s[:5] each build a new list.
ReturnedListsBaseAliased(risk_level) ==
    LET suggested_actions == TableList(risk_level)
    IN  [recommended_actions |-> NewList("unique_actions[:5]"),
         all_suggested_actions |-> suggested_actions]

ReturnedLists(risk_level) ==
    LET suggested_actions == NewList("rec['actions'].copy()")
        all_actions == NewList("prioritized_actions + suggested_actions")
        unique_actions == NewList("list(dict.fromkeys(all_actions))")
    IN  [recommended_actions |-> NewList("unique_actions[:5]"),
         all_suggested_actions |-> unique_actions]

\* What a caller may do to a list it was handed: list.append(x), list.clear().
MutateList(s, op) ==
    IF op = "append" THEN Append(s, "Call the customer") ELSE <<>>

\* The classifiers of a session, what each gives for the record's vector and
\* what TreeExplainer gives for it.
SessionClassifiers == LogisticRegressions(Len(FEATURE_NAMES)) \cup {RandomForest}
SessionOutputs == {[label |-> 1, proba |-> 7800], [label |-> 0, proba |-> 1200]}
NoFit == [label |-> 0, proba |-> 0, shap |-> NoShap]

\* Probabilities a caller gives the recommender in a session: one per level.
SessionProbabilities == {1200, 7800}

NoResults ==
    [predict_churn |-> NotCalled,
     explain_prediction |-> NotCalled,
     generate_full_recommendation |-> [p \in SessionProbabilities |-> NotCalled]]

\* The state of the process once recommend.py is imported and before any
\* session: the tables as written, nothing returned yet.
Imported ==
    /\ tables = StaticTables
    /\ artifacts = LoadedArtifacts
    /\ fitted = NoFit
    /\ first_results = NoResults
    /\ returned_lists = NoLists
    /\ session_log = <<>>

(***************************************************************************)
(* ui/pages/upload_result.py: set_results, apply_filter                    *)
(***************************************************************************)
\* A DataFrame (None when there is none): its column labels in order and its
\* rows in order, each row a dict from column label to value.
NoFrame == [is_none |-> TRUE, columns |-> <<>>, rows |-> <<>>]
Frame(columns, rows) == [is_none |-> FALSE, columns |-> columns, rows |-> rows]

\* df[df['risk_level'] == filter_key] (line 269).
RowsWithLevel(df, filter_key) ==
    LET Keep(row) == row.risk_level = filter_key
    IN  Frame(df.columns, SelectSeq(df.rows, Keep))

\* The fields of the page a handler reads and writes.
ResultPage ==
    [result_data |-> result_data, filtered_data |-> filtered_data,
     current_filter |-> current_filter]

\* set_results (lines 122-126), and a version that leaves the filter alone.
set_results_keeping_filter(page, df) ==
    [result_data |-> df, filtered_data |-> df, current_filter |-> page.current_filter]

set_results(page, df) ==
    [result_data |-> df, filtered_data |-> df, current_filter |-> "All"]

\* apply_filter (lines 258-278).
apply_filter(page, filter_key) ==
    IF page.result_data.is_none
    THEN [page EXCEPT !.current_filter = filter_key]
    ELSE IF filter_key = "All"
    THEN [page EXCEPT !.current_filter = filter_key,
                      !.filtered_data = page.result_data]
    ELSE [page EXCEPT !.current_filter = filter_key,
                      !.filtered_data = RowsWithLevel(page.result_data, filter_key)]

(***************************************************************************)
(* ui/pages/upload.py: load_file, process_file, clear_file                 *)
(***************************************************************************)
NoFile == [is_none |-> TRUE, data |-> NoFrame]
File(df) == [is_none |-> FALSE, data |-> df]

\* required_columns (lines 251-255).
required_columns ==
    <<"age", "gender", "subscription_type", "monthly_charges", "tenure_in_months",
      "login_frequency", "last_login_days", "watch_time", "payment_failures",
      "customer_support_calls">>

\* The DataFrame objects of a process_file call: the uploaded one and, once
\* made, the copy; `df` names the object the local variable df is bound to.
FrameSame(frame) ==
    [df |-> "uploaded", objects |-> [uploaded |-> frame, copy |-> frame]]

\* df = self.uploaded_file['data'].copy() (line 248).
FrameCopy(frame) ==
    [df |-> "copy", objects |-> [uploaded |-> frame, copy |-> frame]]

\* The DataFrame the local variable df is bound to.
Df(env) == env.objects[env.df]

\* df[column] = values: a new last column, or new values under an old one.
SetColumn(env, column, values) ==
    LET frame == Df(env)
        columns == IF column \in Range(frame.columns) THEN frame.columns
                   ELSE Append(frame.columns, column)
        rows == [i \in 1..Len(frame.rows) |->
                    [k \in DOMAIN frame.rows[i] \cup {column} |->
                        IF k = column THEN values[i] ELSE frame.rows[i][k]]]
    IN  [env EXCEPT !.objects[env.df] = Frame(columns, rows)]

\* round(p * 100, 1), in tenths of a percent.
RoundPercent(p) == (p + 5) \div 10

\* What lines 292-294 keep of a row's result.
RowResult(result) ==
    [prediction |-> result.prediction_label,
     probability |-> RoundPercent(result.churn_probability),
     risk_level |-> result.risk_level]

\* The loop of lines 277-294 from the i-th row on: outputs[i] is what the
\* classifier gives for the i-th row.
RECURSIVE PredictRowsFrom(_, _, _, _, _)
PredictRowsFrom(df, i, loaded, outputs, acc) ==
    IF i > Len(df.rows) THEN Returned(acc)
    ELSE LET result ==
                 predict_churn(
                     DictLiteral([k \in Range(required_columns) |-> df.rows[i][k]]),
                     TRUE, ArtifactFiles, loaded.model, loaded.encoders,
                     loaded.feature_names, outputs[i].label, outputs[i].proba)
         IN  IF result.raised # "None" THEN Raised(result.raised)
             ELSE PredictRowsFrom(df, i + 1, loaded, outputs,
                                  Append(acc, RowResult(result)))

\* What a process_file call leaves: the message box or window it showed and
\* the two fields of the page.
Handled(message, uploaded, results) ==
    [message |-> message, uploaded_file |-> uploaded, prediction_results |-> results]

\* Lines 297-311: the three columns are added to df, df is stored and shown.
StoreResults(env, rows) ==
    LET done == SetColumn(
                    SetColumn(
                        SetColumn(env, "prediction",
                                  [i \in 1..Len(rows) |-> rows[i].prediction]),
                        "churn_probability_%",
                        [i \in 1..Len(rows) |-> rows[i].probability]),
                    "risk_level",
                    [i \in 1..Len(rows) |-> rows[i].risk_level])
    IN  Handled("Prediction Results", File(done.objects.uploaded), Df(done))

\* process_file (lines 232-314).  `files` are the artifact files that exist,
\* model, encoders and names what they hold.
process_file(uploaded, results, files, model, encoders, names, outputs) ==
    IF uploaded.is_none THEN Handled("Warning", uploaded, results)
    ELSE
    LET env == FrameCopy(uploaded.data)
    IN  IF \E i \in 1..Len(required_columns) :
               required_columns[i] \notin Range(Df(env).columns)
        THEN Handled("Missing Columns", uploaded, results)
        ELSE
        LET loaded == load_model_and_encoders(files, model, encoders, names)
        IN  IF loaded.raised # "None"
            THEN Handled("Prediction Error", uploaded, results)
            ELSE
            LET predicted == PredictRowsFrom(Df(env), 1, loaded.value, outputs, <<>>)
            IN  IF predicted.raised # "None"
                THEN Handled("Prediction Error", uploaded, results)
                ELSE StoreResults(env, predicted.value)

(***************************************************************************)
(* ui/components/widgets.py: AnimatedGauge                                 *)
(***************************************************************************)
\* The fields of the gauge and the callbacks Tk holds for it.  Values are in
\* hundredths of a percent point; animation_id is 0 for None and otherwise the
\* number of the last id after() gave.
Gauge ==
    [current_value |-> current_value, target_value |-> target_value,
     animation_id |-> animation_id, timers |-> timers]

\* after_cancel(id): the callback with this id, if Tk still holds it, is
\* dropped.
AfterCancelNothing(pending, id) == pending

AfterCancel(pending, id) == {t \in pending : t.id # id}

\* self.animation_id = self.after(16, self.animate_step): Tk numbers its ids
\* upwards.  `issued` tells how many commands the gauge had been given when the
\* callback was scheduled.
After(g, issued) ==
    LET id == g.animation_id + 1
    IN  [g EXCEPT !.timers = @ \cup {[id |-> id, issued |-> issued]},
                  !.animation_id = id]

\* diff * 0.12, cut to the hundredth.
Step(diff) == IF diff >= 0 THEN (diff * 12) \div 100 ELSE 0 - ((0 - diff) * 12) \div 100

\* animate_step (lines 92-105).
animate_step(g, issued) ==
    LET diff == g.target_value - g.current_value
    IN  IF Abs(diff) < 30 THEN [g EXCEPT !.current_value = g.target_value]
        ELSE After([g EXCEPT !.current_value = @ + Step(diff)], issued)

\* if self.animation_id: self.after_cancel(self.animation_id)
CancelPending(g) ==
    IF g.animation_id # 0
    THEN [g EXCEPT !.timers = AfterCancel(@, g.animation_id)]
    ELSE g

\* animate_to (lines 85-90).
animate_to(g, target, issued) ==
    animate_step(CancelPending([g EXCEPT !.target_value = target]), issued)

\* reset (lines 107-113).
reset(g) ==
    [CancelPending(g) EXCEPT !.current_value = 0, !.target_value = 0]

\* The pages and the gauge as their constructors leave them
\* (upload.py:20-23, upload_result.py:20-27, widgets.py:14-23).
PagesBuilt ==
    /\ result_data = NoFrame
    /\ filtered_data = NoFrame
    /\ current_filter = "All"
    /\ uploaded_file = NoFile
    /\ loaded_data = NoFrame
    /\ prediction_results = NoFrame
    /\ batch = [message |-> "None", files |-> {}, results_before |-> NoFrame]
    /\ current_value = 0
    /\ target_value = 0
    /\ animation_id = 0
    /\ timers = {}
    /\ commands = 0
    /\ stale_ran = FALSE
    /\ cancelled = 0

(***************************************************************************)
(* The state machine: one action per call                                  *)
(***************************************************************************)
Init ==
    /\ last_call = "idle"
    /\ customer_data = <<>>
    /\ churn_probability = 0
    /\ top_factors = NoList
    /\ classifier = NoClassifier
    /\ features_arg = <<>>
    /\ feature_names_arg = <<>>
    /\ original_arg = NoDict
    /\ prediction = NotCalled
    /\ explanation = NotCalled
    /\ recommendation = NotCalled
    /\ merge_prioritized = <<>>
    /\ merge_suggested = <<>>
    /\ merge_unique = <<>>
    /\ level = "None"
    /\ key_order = <<>>
    /\ record_after = NoRecord
    /\ encoded = NotCalled
    /\ Imported
    /\ PagesBuilt

\* get_risk_level(churn_probability)
GetRiskLevel ==
    /\ last_call = "idle"
    /\ UNCHANGED <<sessionVars, resultPageVars, uploadVars, gaugeVars>>
    /\ \E p \in AllProbabilities :
            /\ last_call' = "get_risk_level"
            /\ churn_probability' = p
            /\ level' = get_risk_level(p)
            /\ customer_data' = <<>>
            /\ top_factors' = NoList
            /\ classifier' = NoClassifier
            /\ features_arg' = <<>>
            /\ feature_names_arg' = <<>>
            /\ original_arg' = NoDict
            /\ prediction' = NotCalled
            /\ explanation' = NotCalled
            /\ recommendation' = NotCalled
            /\ key_order' = <<>>
            /\ record_after' = NoRecord
            /\ encoded' = NotCalled
            /\ UNCHANGED <<merge_prioritized, merge_suggested, merge_unique>>

\* generate_full_recommendation(churn_probability, customer_data, top_factors);
\* it only reads customer_data.
GenerateFullRecommendation ==
    /\ last_call = "idle"
    /\ UNCHANGED <<sessionVars, resultPageVars, uploadVars, gaugeVars>>
    /\ \E p \in ProbValues, d \in RecommendRecords, tf \in TopFactorLists :
            /\ last_call' = "generate_full_recommendation"
            /\ churn_probability' = p
            /\ customer_data' = d
            /\ top_factors' = tf
            /\ recommendation' = generate_full_recommendation(p, d, tf)
            /\ level' = "None"
            /\ classifier' = NoClassifier
            /\ features_arg' = <<>>
            /\ feature_names_arg' = <<>>
            /\ original_arg' = NoDict
            /\ prediction' = NotCalled
            /\ explanation' = NotCalled
            /\ key_order' = LiteralOrder(d)
            /\ record_after' = Untouched(DictLiteral(d))
            /\ encoded' = NotCalled
            /\ UNCHANGED <<merge_prioritized, merge_suggested, merge_unique>>

\* predict_churn(customer_data, model, encoders, feature_names), with the
\* artifacts given or left to load_model_and_encoders.
PredictChurn ==
    /\ last_call = "idle"
    /\ UNCHANGED <<sessionVars, resultPageVars, uploadVars, gaugeVars>>
    /\ \E d \in PredictRecords, passed \in BOOLEAN, files \in SUBSET ArtifactFiles,
           mdl \in Classifiers(Len(FEATURE_NAMES)), label \in {0, 1},
           proba \in ProbValues :
        LET result == predict_churn(DictLiteral(d), passed, files, mdl, ENCODERS,
                                    FEATURE_NAMES, label, proba)
        IN  /\ last_call' = "predict_churn"
            /\ customer_data' = d
            /\ key_order' = LiteralOrder(d)
            /\ classifier' = IF passed \/ files = ArtifactFiles
                             THEN mdl ELSE NoClassifier
            /\ prediction' = ReturnedDict(result)
            /\ record_after' = result.customer_data
            /\ encoded' = NotCalled
            /\ churn_probability' = 0
            /\ top_factors' = NoList
            /\ level' = "None"
            /\ features_arg' = <<>>
            /\ feature_names_arg' = <<>>
            /\ original_arg' = NoDict
            /\ explanation' = NotCalled
            /\ recommendation' = NotCalled
            /\ UNCHANGED <<merge_prioritized, merge_suggested, merge_unique>>

\* explain_prediction(customer_features, model, feature_names, original_values)
\* on a vector of any width up to MaxFeatures and as many names, one fewer or
\* one more.
ExplainPrediction ==
    /\ last_call = "idle"
    /\ UNCHANGED <<sessionVars, resultPageVars, uploadVars, gaugeVars>>
    /\ \E width \in 0..MaxFeatures :
        \E features \in [1..width -> ScaledLevels],
           n \in {k \in {width - 1, width, width + 1} : k >= 0},
           mdl \in Classifiers(width), orig \in OriginalValues :
        \E shap \in ShapResults(mdl, width) :
            /\ last_call' = "explain_prediction"
            /\ features_arg' = features
            /\ classifier' = mdl
            /\ feature_names_arg' = Take(FEATURE_NAMES, n)
            /\ original_arg' = orig
            /\ explanation' = explain_prediction(features, mdl, Take(FEATURE_NAMES, n),
                                                 orig, shap)
            /\ customer_data' = <<>>
            /\ churn_probability' = 0
            /\ top_factors' = NoList
            /\ level' = "None"
            /\ prediction' = NotCalled
            /\ recommendation' = NotCalled
            /\ key_order' = <<>>
            /\ record_after' = NoRecord
            /\ encoded' = NotCalled
            /\ UNCHANGED <<merge_prioritized, merge_suggested, merge_unique>>

\* PredictPage.predict (ui/pages/predict.py:319-347): the calls in a row on
\* the one dict get_customer_data built, each fed from the one before; any
\* exception ends the handler with a message box and no result.
PredictPagePredict ==
    /\ last_call = "idle"
    /\ UNCHANGED <<sessionVars, resultPageVars, uploadVars, gaugeVars>>
    /\ \E loaded \in BOOLEAN, d \in PageRecords,
          mdl \in Classifiers(Len(FEATURE_NAMES)), label \in {0, 1},
          proba \in ProbValues :
       \E shap \in PageShapResults(mdl) :
        LET result == predict_churn(DictLiteral(d), TRUE, ArtifactFiles, mdl,
                                    ENCODERS, FEATURE_NAMES, label, proba)
            predicted == loaded /\ result.raised = "None"
            features == preprocess_customer_data(result.customer_data,
                                                 ENCODERS, FEATURE_NAMES)
            done == predicted /\ features.raised = "None"
            record == features.customer_data.map
            explained == explain_prediction(features.value, mdl, FEATURE_NAMES,
                                            Dict(record), shap)
        IN  /\ last_call' = "PredictPage.predict"
            /\ customer_data' = IF loaded THEN d ELSE <<>>
            /\ key_order' = IF loaded THEN LiteralOrder(d) ELSE <<>>
            /\ classifier' = IF loaded THEN mdl ELSE NoClassifier
            /\ prediction' = IF loaded THEN ReturnedDict(result) ELSE NotCalled
            /\ encoded' = IF predicted THEN ReturnedDict(features) ELSE NotCalled
            /\ record_after' =
                   IF predicted
                   THEN features.customer_data
                   ELSE IF loaded THEN result.customer_data
                   ELSE NoRecord
            /\ features_arg' = IF done THEN features.value ELSE <<>>
            /\ feature_names_arg' = IF done THEN FEATURE_NAMES ELSE <<>>
            /\ original_arg' = IF done THEN Dict(record) ELSE NoDict
            /\ explanation' = IF done THEN explained ELSE NotCalled
            /\ churn_probability' = IF done THEN result.churn_probability ELSE 0
            /\ top_factors' = IF done THEN List(explained.top_factors) ELSE NoList
            /\ recommendation' =
                   IF done
                   THEN generate_full_recommendation(result.churn_probability,
                                                     record,
                                                     List(explained.top_factors))
                   ELSE NotCalled
            /\ level' = "None"
            /\ UNCHANGED <<merge_prioritized, merge_suggested, merge_unique>>

\* The caller is done with the result: nothing of the call is kept.
Return ==
    /\ last_call # "idle"
    /\ UNCHANGED <<sessionVars, resultPageVars, uploadVars, gaugeVars>>
    /\ last_call' = "idle"
    /\ customer_data' = <<>>
    /\ churn_probability' = 0
    /\ top_factors' = NoList
    /\ classifier' = NoClassifier
    /\ features_arg' = <<>>
    /\ feature_names_arg' = <<>>
    /\ original_arg' = NoDict
    /\ prediction' = NotCalled
    /\ explanation' = NotCalled
    /\ recommendation' = NotCalled
    /\ merge_prioritized' = <<>>
    /\ merge_suggested' = <<>>
    /\ merge_unique' = <<>>
    /\ level' = "None"
    /\ key_order' = <<>>
    /\ record_after' = NoRecord
    /\ encoded' = NotCalled

Next ==
    \/ GetRiskLevel
    \/ GenerateFullRecommendation
    \/ PredictChurn
    \/ ExplainPrediction
    \/ PredictPagePredict
    \/ Return

Spec == Init /\ [][Next]_vars

(***************************************************************************)
(* The merge of recommend.py:165-167 on lists of its own: any prioritized   *)
(* list and any base list of up to MaxActions strings, repeats included.   *)
(***************************************************************************)
MergeLists == SeqsUpTo(MergeStrings, MaxActions)

MergeInit ==
    /\ last_call = "idle"
    /\ merge_prioritized \in MergeLists
    /\ merge_suggested \in MergeLists
    /\ merge_unique = <<>>
    /\ customer_data = <<>>
    /\ churn_probability = 0
    /\ top_factors = NoList
    /\ classifier = NoClassifier
    /\ features_arg = <<>>
    /\ feature_names_arg = <<>>
    /\ original_arg = NoDict
    /\ prediction = NotCalled
    /\ explanation = NotCalled
    /\ recommendation = NotCalled
    /\ level = "None"
    /\ key_order = <<>>
    /\ record_after = NoRecord
    /\ encoded = NotCalled
    /\ Imported
    /\ PagesBuilt

\* unique_actions = list(dict.fromkeys(prioritized_actions + suggested_actions))
MergeActions ==
    /\ last_call = "idle"
    /\ UNCHANGED <<sessionVars, resultPageVars, uploadVars, gaugeVars>>
    /\ last_call' = "merge"
    /\ merge_unique' = DictFromKeys(Combine(merge_prioritized, merge_suggested))
    /\ UNCHANGED <<merge_prioritized, merge_suggested, customer_data,
                   churn_probability, top_factors, classifier, features_arg,
                   feature_names_arg, original_arg, prediction, explanation,
                   recommendation, level, key_order, record_after, encoded>>

MergeNext == MergeActions

MergeSpec == MergeInit /\ [][MergeNext]_vars

(***************************************************************************)
(* preprocess_customer_data on dicts of its own: the first columns of the   *)
(* training order, up to MaxFeatures of them, a record holding them and    *)
(* every order in which the record's keys can have been inserted.          *)
(***************************************************************************)
EncodeInit ==
    /\ last_call = "idle"
    /\ feature_names_arg \in {Take(FEATURE_NAMES, n) : n \in 1..MaxFeatures}
    /\ customer_data \in EncodeRecords(feature_names_arg)
    /\ key_order \in Perms(DOMAIN customer_data)
    /\ record_after = Untouched(PyDict(key_order, customer_data))
    /\ encoded = NotCalled
    /\ churn_probability = 0
    /\ top_factors = NoList
    /\ classifier = NoClassifier
    /\ features_arg = <<>>
    /\ original_arg = NoDict
    /\ prediction = NotCalled
    /\ explanation = NotCalled
    /\ recommendation = NotCalled
    /\ merge_prioritized = <<>>
    /\ merge_suggested = <<>>
    /\ merge_unique = <<>>
    /\ level = "None"
    /\ Imported
    /\ PagesBuilt

\* features_scaled = preprocess_customer_data(customer_data, encoders, feature_names)
PreprocessCustomerData ==
    /\ last_call = "idle"
    /\ UNCHANGED <<sessionVars, resultPageVars, uploadVars, gaugeVars>>
    /\ LET result == preprocess_customer_data(PyDict(key_order, customer_data),
                                              ENCODERS, feature_names_arg)
       IN  /\ last_call' = "preprocess_customer_data"
           /\ encoded' = ReturnedDict(result)
           /\ record_after' = result.customer_data
    /\ UNCHANGED <<customer_data, key_order, feature_names_arg, churn_probability,
                   top_factors, classifier, features_arg, original_arg,
                   prediction, explanation, recommendation, merge_prioritized,
                   merge_suggested, merge_unique, level>>

EncodeNext == PreprocessCustomerData

EncodeSpec == EncodeInit /\ [][EncodeNext]_vars

(***************************************************************************)
(* A session on the loaded pipeline: one record, one fitted classifier,    *)
(* and up to MaxCalls calls in any order, the caller's record, the tables  *)
(* and the artifacts living on from call to call.                          *)
(***************************************************************************)
SessionRecords == PageRecords \cup {[high_risk_customer EXCEPT !.gender = "Other"]}

SessionInit ==
    /\ last_call = "idle"
    /\ customer_data \in SessionRecords
    /\ key_order = LiteralOrder(customer_data)
    /\ record_after = DictLiteral(customer_data)
    /\ classifier \in SessionClassifiers
    /\ fitted \in {[label |-> out.label, proba |-> out.proba, shap |-> shap] :
                      out \in SessionOutputs, shap \in PageShapResults(classifier)}
    /\ churn_probability = 0
    /\ top_factors = NoList
    /\ features_arg = <<>>
    /\ feature_names_arg = <<>>
    /\ original_arg = NoDict
    /\ prediction = NotCalled
    /\ explanation = NotCalled
    /\ recommendation = NotCalled
    /\ merge_prioritized = <<>>
    /\ merge_suggested = <<>>
    /\ merge_unique = <<>>
    /\ level = "None"
    /\ encoded = NotCalled
    /\ tables = StaticTables
    /\ artifacts = LoadedArtifacts
    /\ first_results = NoResults
    /\ returned_lists = NoLists
    /\ session_log = <<>>
    /\ PagesBuilt

\* result = predict_churn(customer_data, model, encoders, feature_names), on
\* the caller's dict as the calls before left it.
SessionPredictChurn ==
    /\ Len(session_log) < MaxCalls
    /\ LET result == predict_churn(record_after, TRUE, ArtifactFiles, classifier,
                                   artifacts.encoders, artifacts.feature_names,
                                   fitted.label, fitted.proba)
       IN  /\ last_call' = "predict_churn"
           /\ prediction' = ReturnedDict(result)
           /\ record_after' = result.customer_data
           /\ first_results' =
                  IF first_results.predict_churn.raised = "NotCalled"
                  THEN [first_results EXCEPT !.predict_churn = ReturnedDict(result)]
                  ELSE first_results
    /\ session_log' = Append(session_log, "predict_churn")
    /\ UNCHANGED <<customer_data, key_order, classifier, churn_probability,
                   top_factors, features_arg, feature_names_arg, original_arg,
                   explanation, recommendation, merge_prioritized,
                   merge_suggested, merge_unique, level, encoded>>
    /\ UNCHANGED <<tables, artifacts, fitted, returned_lists>>
    /\ UNCHANGED <<resultPageVars, uploadVars, gaugeVars>>

\* features = preprocess_customer_data(customer_data, encoders, feature_names)
\* and explain_prediction(features, model, feature_names, customer_data), as
\* ui/pages/predict.py:337-339 chains them.
SessionExplainPrediction ==
    /\ Len(session_log) < MaxCalls
    /\ LET features == preprocess_customer_data(record_after, artifacts.encoders,
                                                artifacts.feature_names)
           done == features.raised = "None"
           original == Dict(features.customer_data.map)
           result == IF done
                     THEN explain_prediction(features.value, classifier,
                                             artifacts.feature_names, original,
                                             fitted.shap)
                     ELSE [raised |-> features.raised]
       IN  /\ last_call' = "explain_prediction"
           /\ encoded' = ReturnedDict(features)
           /\ record_after' = features.customer_data
           /\ features_arg' = IF done THEN features.value ELSE <<>>
           /\ feature_names_arg' = artifacts.feature_names
           /\ original_arg' = original
           /\ explanation' = result
           /\ first_results' =
                  IF first_results.explain_prediction.raised = "NotCalled"
                  THEN [first_results EXCEPT !.explain_prediction = result]
                  ELSE first_results
    /\ session_log' = Append(session_log, "explain_prediction")
    /\ UNCHANGED <<customer_data, key_order, classifier, churn_probability,
                   top_factors, prediction, recommendation, merge_prioritized,
                   merge_suggested, merge_unique, level>>
    /\ UNCHANGED <<tables, artifacts, fitted, returned_lists>>
    /\ UNCHANGED <<resultPageVars, uploadVars, gaugeVars>>

\* generate_full_recommendation(churn_probability, customer_data), top_factors
\* left to its default.
SessionGenerateFullRecommendation ==
    /\ Len(session_log) < MaxCalls
    /\ \E p \in SessionProbabilities :
        LET result == generate_full_recommendation(p, record_after.map, NoList)
        IN  /\ last_call' = "generate_full_recommendation"
            /\ churn_probability' = p
            /\ top_factors' = NoList
            /\ recommendation' = result
            /\ returned_lists' = IF result.raised = "None"
                                 THEN ReturnedLists(result.risk_level)
                                 ELSE NoLists
            /\ first_results' =
                   IF first_results.generate_full_recommendation[p].raised = "NotCalled"
                   THEN [first_results EXCEPT
                            !.generate_full_recommendation[p] = result]
                   ELSE first_results
    /\ session_log' = Append(session_log, "generate_full_recommendation")
    /\ UNCHANGED <<customer_data, key_order, classifier, features_arg,
                   feature_names_arg, original_arg, prediction, explanation,
                   merge_prioritized, merge_suggested, merge_unique, level,
                   record_after, encoded>>
    /\ UNCHANGED <<tables, artifacts, fitted>>
    /\ UNCHANGED <<resultPageVars, uploadVars, gaugeVars>>

\* The caller changes one of the two action lists of the recommendation it
\* holds; when that list is one a table holds, the table changes with it.
CallerMutatesList ==
    /\ Len(session_log) < MaxCalls
    /\ recommendation.raised = "None"
    /\ \E key \in {"recommended_actions", "all_suggested_actions"},
          op \in {"append", "clear"} :
        LET object == returned_lists[key]
        IN  /\ recommendation' = [recommendation EXCEPT ![key] = MutateList(@, op)]
            /\ tables' =
                   IF object.owner = "CHURN_RECOMMENDATIONS"
                   THEN [tables EXCEPT
                            !.CHURN_RECOMMENDATIONS[object.key].actions =
                                MutateList(@, op)]
                   ELSE tables
    /\ last_call' = "list mutated"
    /\ session_log' = Append(session_log, "list mutated")
    /\ UNCHANGED <<customer_data, key_order, classifier, churn_probability,
                   top_factors, features_arg, feature_names_arg, original_arg,
                   prediction, explanation, merge_prioritized, merge_suggested,
                   merge_unique, level, record_after, encoded>>
    /\ UNCHANGED <<artifacts, fitted, first_results, returned_lists>>
    /\ UNCHANGED <<resultPageVars, uploadVars, gaugeVars>>

SessionNext ==
    \/ SessionPredictChurn
    \/ SessionExplainPrediction
    \/ SessionGenerateFullRecommendation
    \/ CallerMutatesList

SessionSpec == SessionInit /\ [][SessionNext]_vars

(***************************************************************************)
(* The batch result page: set_results with any table of up to MaxRows rows *)
(* and the four filter cards, in any order.                                *)
(***************************************************************************)
ResultFrames ==
    {Frame(<<"customer_id", "risk_level">>,
           [i \in 1..Len(q) |-> [customer_id |-> i, risk_level |-> q[i]]]) :
        q \in SeqsUpTo({"HIGH", "MODERATE", "LOW"}, MaxRows)}

\* The keys of the cards (upload_result.py:196-219).
FilterKeys == {"All", "HIGH", "MODERATE", "LOW"}

SetResults ==
    /\ \E df \in ResultFrames :
        LET page == set_results(ResultPage, df)
        IN  /\ result_data' = page.result_data
            /\ filtered_data' = page.filtered_data
            /\ current_filter' = page.current_filter
    /\ last_call' = "set_results"
    /\ UNCHANGED <<inHandVars, sessionVars, uploadVars, gaugeVars>>

ApplyFilter ==
    /\ \E filter_key \in FilterKeys :
        LET page == apply_filter(ResultPage, filter_key)
        IN  /\ result_data' = page.result_data
            /\ filtered_data' = page.filtered_data
            /\ current_filter' = page.current_filter
    /\ last_call' = "apply_filter"
    /\ UNCHANGED <<inHandVars, sessionVars, uploadVars, gaugeVars>>

ResultPageNext == SetResults \/ ApplyFilter

ResultPageSpec == Init /\ [][ResultPageNext]_vars

(***************************************************************************)
(* The upload page: files of up to MaxBatchRows rows, with every required  *)
(* column or without the first, loaded, processed and cleared in any order.*)
(***************************************************************************)
UploadRecords ==
    {high_risk_customer, low_risk_customer,
     [high_risk_customer EXCEPT !.gender = "Other"]}

UploadFrames ==
    {Frame(columns, [i \in 1..Len(q) |-> Restrict(q[i], Range(columns))]) :
        q \in SeqsUpTo(UploadRecords, MaxBatchRows),
        columns \in {required_columns, Tail(required_columns)}}

\* load_file (lines 195-230) on a file pandas can read.
LoadFile ==
    /\ \E df \in UploadFrames :
        /\ uploaded_file' = File(df)
        /\ loaded_data' = df
    /\ last_call' = "load_file"
    /\ UNCHANGED <<prediction_results, batch>>
    /\ UNCHANGED <<inHandVars, sessionVars, resultPageVars, gaugeVars>>

\* What the classifier gives for the rows of a batch: churn at 0.78 for the
\* odd rows and stay at 0.12 for the even ones.
BatchOutputs ==
    [i \in 1..MaxBatchRows |->
        IF i % 2 = 1 THEN [label |-> 1, proba |-> 7800]
        ELSE [label |-> 0, proba |-> 1200]]

\* process_file, with the artifact files there or the encoders' file missing.
ProcessFile ==
    /\ \E files \in {ArtifactFiles, ArtifactFiles \ {"encoder.pkl"}} :
        LET done == process_file(uploaded_file, prediction_results, files,
                                 RandomForest, ENCODERS, FEATURE_NAMES,
                                 BatchOutputs)
        IN  /\ uploaded_file' = done.uploaded_file
            /\ prediction_results' = done.prediction_results
            /\ batch' = [message |-> done.message, files |-> files,
                         results_before |-> prediction_results]
    /\ last_call' = "process_file"
    /\ UNCHANGED loaded_data
    /\ UNCHANGED <<inHandVars, sessionVars, resultPageVars, gaugeVars>>

\* clear_file (lines 436-445).
ClearFile ==
    /\ uploaded_file' = NoFile
    /\ loaded_data' = NoFrame
    /\ last_call' = "clear_file"
    /\ UNCHANGED <<prediction_results, batch>>
    /\ UNCHANGED <<inHandVars, sessionVars, resultPageVars, gaugeVars>>

UploadNext == LoadFile \/ ProcessFile \/ ClearFile

UploadSpec == Init /\ [][UploadNext]_vars

(***************************************************************************)
(* The gauge: up to MaxCommands animate_to and reset calls, and the        *)
(* callbacks Tk holds run in between, in any order.                        *)
(***************************************************************************)
\* prob * 100 for three probabilities (ui/pages/predict.py:353).
GaugeTargets == {0, 400, 2500}

\* What a handler leaves of the gauge.
GaugeBecomes(g) ==
    /\ current_value' = g.current_value
    /\ target_value' = g.target_value
    /\ animation_id' = g.animation_id
    /\ timers' = g.timers

AnimateTo ==
    /\ commands < MaxCommands
    /\ \E target \in GaugeTargets :
        LET g == animate_to(Gauge, target, commands + 1)
        IN  /\ GaugeBecomes(g)
            /\ cancelled' = cancelled + Cardinality(timers \ g.timers)
    /\ commands' = commands + 1
    /\ last_call' = "animate_to"
    /\ UNCHANGED stale_ran
    /\ UNCHANGED <<inHandVars, sessionVars, resultPageVars, uploadVars>>

Reset ==
    /\ commands < MaxCommands
    /\ LET g == reset(Gauge)
       IN  /\ GaugeBecomes(g)
           /\ cancelled' = cancelled + Cardinality(timers \ g.timers)
    /\ commands' = commands + 1
    /\ last_call' = "reset"
    /\ UNCHANGED stale_ran
    /\ UNCHANGED <<inHandVars, sessionVars, resultPageVars, uploadVars>>

\* Tk runs a callback it holds: animate_step, once.
TimerFires ==
    /\ \E t \in timers :
        /\ GaugeBecomes(animate_step([Gauge EXCEPT !.timers = @ \ {t}], commands))
        /\ stale_ran' = (stale_ran \/ t.issued < commands)
    /\ last_call' = "animate_step"
    /\ UNCHANGED <<commands, cancelled>>
    /\ UNCHANGED <<inHandVars, sessionVars, resultPageVars, uploadVars>>

GaugeNext == AnimateTo \/ Reset \/ TimerFires

GaugeSpec == Init /\ [][GaugeNext]_vars

(***************************************************************************)
(* Properties                                                              *)
(***************************************************************************)
\* The place of x in s (0 when x is not in s).
IndexOf(s, x) ==
    IF \E i \in 1..Len(s) : s[i] = x
    THEN CHOOSE i \in 1..Len(s) : s[i] = x /\ \A j \in 1..(i - 1) : s[j] # x
    ELSE 0

\* The recommender has returned a recommendation for customer_data,
\* churn_probability and top_factors.
Recommended ==
    /\ last_call \in {"generate_full_recommendation", "PredictPage.predict"}
    /\ recommendation.raised = "None"

\* The rule of `feature` fires on customer_data, from the record alone.
Fires(feature) ==
    /\ feature \in FactorFeatureSet
    /\ feature \in DOMAIN customer_data
    /\ Condition(feature, customer_data[feature])

\* `feature` is named by top_factors.
NamedTop(feature) ==
    /\ ~top_factors.is_none
    /\ \E i \in 1..Len(top_factors.items) : top_factors.items[i].feature = feature

\* The tier the spec gives a probability.
TierIs(p, r) ==
    /\ p >= 7000 => r = "HIGH"
    /\ (p >= 4000 /\ p < 7000) => r = "MODERATE"
    /\ p < 4000 => r = "LOW"

\* C1: the risk tier is a total function of the probability with inclusive
\* lower bounds, in get_risk_level and in predict_churn alike: HIGH from 0.70,
\* MODERATE from 0.40 up to 0.70, LOW below 0.40.
C1_TierByInclusiveThresholds ==
    /\ last_call = "get_risk_level" =>
          /\ level \in {"HIGH", "MODERATE", "LOW"}
          /\ TierIs(churn_probability, level)
    /\ (last_call = "predict_churn" /\ prediction.raised = "None") =>
          /\ prediction.risk_level \in {"HIGH", "MODERATE", "LOW"}
          /\ TierIs(prediction.churn_probability, prediction.risk_level)

C1_Witness ==
    /\ last_call = "get_risk_level"
    /\ churn_probability = 7000
    /\ level = "HIGH"

\* C2: the recommender's tier is the predictor's tier: on the prediction page
\* the recommendation made from a prediction carries the prediction's
\* risk_level, and for any probability and any top_factors the recommender
\* gives the tier the predictor gives that probability.
C2_TiersAgree ==
    /\ (last_call = "PredictPage.predict" /\ recommendation.raised = "None") =>
          /\ churn_probability = prediction.churn_probability
          /\ recommendation.risk_level = prediction.risk_level
    /\ (last_call = "generate_full_recommendation" /\ recommendation.raised = "None") =>
          recommendation.risk_level = RiskLevel(churn_probability)

C2_Witness ==
    /\ last_call = "PredictPage.predict"
    /\ recommendation.raised = "None"
    /\ prediction.churn_probability = 4000
    /\ prediction.risk_level = "MODERATE"
    /\ recommendation.risk_level = "MODERATE"

\* C3: in all_suggested_actions the action of a fired rule named by
\* top_factors comes before the action of every fired rule not named by it,
\* and the action of a fired rule comes before every action that is only in
\* the tier's base list.
C3_TopThenFactorThenBase ==
    Recommended =>
        LET all == recommendation.all_suggested_actions
            fired == {f \in FactorFeatureSet : Fires(f)}
            factor_actions == {FactorAction(f) : f \in fired}
        IN  /\ \A f, g \in fired :
                  (NamedTop(f) /\ ~NamedTop(g)) =>
                      /\ IndexOf(all, FactorAction(f)) > 0
                      /\ IndexOf(all, FactorAction(f)) < IndexOf(all, FactorAction(g))
            /\ \A f \in fired : \A j \in 1..Len(all) :
                  all[j] \notin factor_actions =>
                      /\ IndexOf(all, FactorAction(f)) > 0
                      /\ IndexOf(all, FactorAction(f)) < j

C3_Witness ==
    /\ Recommended
    /\ \E f, g \in FactorFeatureSet :
          /\ Fires(f) /\ Fires(g) /\ NamedTop(f) /\ ~NamedTop(g)
          /\ g = "last_login_days"
          /\ IndexOf(recommendation.all_suggested_actions, FactorAction(f)) = 1
          /\ IndexOf(recommendation.all_suggested_actions, FactorAction(g)) = 2

\* C4: the actions of fired rules named by top_factors come in the order in
\* which top_factors names their features.
C4_TopFactorOrderKept ==
    Recommended =>
        \A i, j \in 1..Len(top_factors.items) :
            LET f == top_factors.items[i].feature
                g == top_factors.items[j].feature
                all == recommendation.all_suggested_actions
            IN  (i < j /\ Fires(f) /\ Fires(g)) =>
                    IndexOf(all, FactorAction(f)) < IndexOf(all, FactorAction(g))

\* C5: the merged list is the prioritized list followed by the base list
\* with every string kept once, at its first occurrence: no string twice,
\* every string of both lists there, in the order of first occurrence, and a
\* string that is in both lists once, before every string of the base list
\* alone.
C5_MergeKeepsFirstOccurrence ==
    last_call = "merge" =>
        LET joined == merge_prioritized \o merge_suggested
            both == Range(merge_prioritized) \cap Range(merge_suggested)
        IN  /\ \A i, j \in 1..Len(merge_unique) :
                  i # j => merge_unique[i] # merge_unique[j]
            /\ Range(merge_unique) = Range(joined)
            /\ \A x, y \in Range(joined) :
                  IndexOf(joined, x) < IndexOf(joined, y) =>
                      IndexOf(merge_unique, x) < IndexOf(merge_unique, y)
            /\ \A x \in both :
                  /\ Cardinality({i \in 1..Len(merge_unique) : merge_unique[i] = x}) = 1
                  /\ \A y \in Range(merge_suggested) \ Range(merge_prioritized) :
                        IndexOf(merge_unique, x) < IndexOf(merge_unique, y)

C5_Witness ==
    /\ last_call = "merge"
    /\ Len(merge_prioritized) = 2
    /\ Len(merge_suggested) = 2
    /\ merge_prioritized[2] = merge_suggested[1]
    /\ merge_prioritized[1] # merge_prioritized[2]
    /\ merge_suggested[2] \notin Range(merge_prioritized)
    /\ merge_unique = <<merge_prioritized[1], merge_prioritized[2], merge_suggested[2]>>

\* C6: recommended_actions is the first min(5, n) elements of
\* all_suggested_actions, n its length, and all_suggested_actions is whole:
\* one string for each fired rule and the four of the tier.
C6_FirstFiveOfFullList ==
    Recommended =>
        LET all == recommendation.all_suggested_actions
            shown == recommendation.recommended_actions
            fired == {f \in FactorFeatureSet : Fires(f)}
        IN  /\ Len(shown) = (IF Len(all) < 5 THEN Len(all) ELSE 5)
            /\ \A i \in 1..Len(shown) : shown[i] = all[i]
            /\ Len(all) = Cardinality(fired) + 4

C6_Witness ==
    /\ Recommended
    /\ Len(recommendation.all_suggested_actions) = 7
    /\ Len(recommendation.recommended_actions) = 5

\* customer_data holds the rule features of the LOW-risk scenario record.
LowRiskScenario ==
    /\ Recommended
    /\ \A f \in FactorFeatureSet :
          f \in DOMAIN customer_data /\ customer_data[f] = low_risk_customer[f]
    /\ churn_probability < 4000

\* C7 as stated: for the LOW-risk scenario record and a probability below
\* 0.40 no factor rule fires and every recommended action is one of the LOW
\* tier's base actions.
C7_NoRuleFiresForLowScenario ==
    LowRiskScenario =>
        /\ recommendation.factor_insights = <<>>
        /\ \A i \in 1..Len(recommendation.recommended_actions) :
              recommendation.recommended_actions[i]
                  \in Range(CHURN_RECOMMENDATIONS["LOW"].actions)

\* C7 amended: for the LOW-risk scenario record and a probability below 0.40
\* exactly one factor rule fires, that of monthly_charges (29.99 > 25), and
\* recommended_actions is that rule's action followed by the four base actions
\* of the LOW tier.
C7_OnlyChargesRuleFiresForLowScenario ==
    LowRiskScenario =>
        /\ Len(recommendation.factor_insights) = 1
        /\ recommendation.factor_insights[1].feature = "monthly_charges"
        /\ recommendation.recommended_actions =
              <<"Highlight value proposition and premium benefits",
                "Continue regular engagement",
                "Include in loyalty rewards program",
                "Send monthly newsletter",
                "No immediate action required">>

C7_Witness ==
    /\ LowRiskScenario
    /\ last_call = "generate_full_recommendation"
    /\ churn_probability = 1200
    /\ top_factors = List(<<>>)
    /\ recommendation.risk_level = "LOW"

\* C8: a rule whose feature is not a key of the record does not fire and
\* raises nothing: whatever rule features the record holds, the recommender
\* returns, and factor_insights has no entry for a feature the record lacks.
C8_AbsentFeatureNeitherFiresNorRaises ==
    last_call = "generate_full_recommendation" =>
        /\ recommendation.raised = "None"
        /\ \A i \in 1..Len(recommendation.factor_insights) :
              recommendation.factor_insights[i].feature \in DOMAIN customer_data

C8_Witness ==
    /\ last_call = "generate_full_recommendation"
    /\ recommendation.raised = "None"
    /\ DOMAIN customer_data = {"payment_failures", "watch_time"}
    /\ Len(recommendation.factor_insights) = 2

\* The seven predicates as the specification lists them, on values in hundredths.
StatedPredicate(feature, x) ==
    \/ feature = "last_login_days" /\ x > 1400
    \/ feature = "login_frequency" /\ x < 500
    \/ feature = "watch_time" /\ x < 1000
    \/ feature = "payment_failures" /\ x > 0
    \/ feature = "customer_support_calls" /\ x > 300
    \/ feature = "tenure_in_months" /\ x < 600
    \/ feature = "monthly_charges" /\ x > 2500

\* C9: factor_insights has one entry for a feature exactly when the feature
\* has a rule, is a key of the record and the rule's predicate holds on the
\* raw value; each such rule puts its action in the action list and no other
\* factor action is there.
C9_InsightsAreTheFiredRules ==
    Recommended =>
        LET insights == recommendation.factor_insights
            all == recommendation.all_suggested_actions
            entries(f) == {i \in 1..Len(insights) : insights[i].feature = f}
            holds(f) == /\ f \in FactorFeatureSet
                        /\ f \in DOMAIN customer_data
                        /\ StatedPredicate(f, customer_data[f])
        IN  /\ \A f \in Range(FEATURE_NAMES) \cup FactorFeatureSet :
                  Cardinality(entries(f)) = (IF holds(f) THEN 1 ELSE 0)
            /\ \A i \in 1..Len(insights) :
                  /\ insights[i].feature \in FactorFeatureSet
                  /\ insights[i].action = FactorAction(insights[i].feature)
                  /\ insights[i].value = customer_data[insights[i].feature]
            /\ \A f \in FactorFeatureSet :
                  holds(f) <=> FactorAction(f) \in Range(all)

C9_Witness ==
    /\ Recommended
    /\ DOMAIN customer_data = FactorFeatureSet
    /\ customer_data["payment_failures"] = 0
    /\ customer_data["last_login_days"] = 4500
    /\ Len(recommendation.factor_insights) = 3

\* The explainer has returned an explanation.
Explained ==
    /\ last_call \in {"explain_prediction", "PredictPage.predict"}
    /\ explanation.raised = "None"

\* C10: all_features is sorted by abs_shap_value, largest first, and
\* top_factors is its first three elements (all of them when there are fewer).
C10_SortedAndTopThree ==
    Explained =>
        LET all == explanation.all_features
            top == explanation.top_factors
        IN  /\ \A i, j \in 1..Len(all) :
                  i < j => all[i].abs_shap_value >= all[j].abs_shap_value
            /\ Len(top) = (IF Len(all) < 3 THEN Len(all) ELSE 3)
            /\ \A i \in 1..Len(top) : top[i] = all[i]

C10_Witness ==
    /\ last_call = "explain_prediction"
    /\ explanation.raised = "None"
    /\ Len(explanation.all_features) = 4
    /\ Len(explanation.top_factors) = 3
    /\ explanation.all_features[1].feature = "monthly_charges"
    /\ explanation.all_features[1].abs_shap_value > explanation.all_features[3].abs_shap_value
    /\ explanation.all_features[3].abs_shap_value > explanation.all_features[4].abs_shap_value

\* The place in the vector of the feature an attribution is for.
PlaceOf(entry) == IndexOf(feature_names_arg, entry.feature)

\* C11: features with equal abs_shap_value keep their feature_names order in
\* all_features: of two such entries the one that comes first in all_features
\* is for the feature that comes first in feature_names.
C11_TiesKeepFeatureOrder ==
    Explained =>
        LET all == explanation.all_features
        IN  \A i, j \in 1..Len(all) :
                (i < j /\ all[i].abs_shap_value = all[j].abs_shap_value) =>
                    PlaceOf(all[i]) < PlaceOf(all[j])

C11_Witness ==
    /\ last_call = "explain_prediction"
    /\ explanation.raised = "None"
    /\ Len(explanation.all_features) = 4
    /\ explanation.all_features[1].abs_shap_value >
          explanation.all_features[2].abs_shap_value
    /\ explanation.all_features[2].abs_shap_value =
          explanation.all_features[3].abs_shap_value
    /\ explanation.all_features[2].shap_value # explanation.all_features[3].shap_value
    /\ explanation.all_features[3].abs_shap_value >
          explanation.all_features[4].abs_shap_value
    /\ PlaceOf(explanation.all_features[2]) < PlaceOf(explanation.all_features[3])

\* The classifier has per-feature coefficients and an intercept.
LinearFamily == classifier.has_coef_

\* The sum of the signed contributions of a list of attributions.
RECURSIVE SumContributions(_)
SumContributions(all) ==
    IF all = <<>> THEN 0
    ELSE all[1].shap_value + SumContributions(Tail(all))

\* The intercept plus the dot product of the coefficients and the vector.
RECURSIVE DotFrom(_, _, _)
DotFrom(coef, x, i) ==
    IF i > Len(x) THEN 0 ELSE coef[i] * x[i] + DotFrom(coef, x, i + 1)

LinearScore == classifier.intercept_ + DotFrom(classifier.coef_, features_arg, 1)

\* Every attribution is the coefficient times the value at its feature's place
\* and the base value is the intercept.
CoefficientBased ==
    /\ \A i \in 1..Len(explanation.all_features) :
          LET e == explanation.all_features[i]
          IN  e.shap_value = classifier.coef_[PlaceOf(e)] * features_arg[PlaceOf(e)]
    /\ explanation.base_value = classifier.intercept_

\* C12: for a linear model each signed contribution is coefficient[i] *
\* encoded_value[i], base_value is the intercept, and the signed contributions
\* of all_features plus base_value add up to the linear score of the vector
\* (the intercept plus the dot product of the coefficients and the vector).
C12_LinearDecomposition ==
    (Explained /\ LinearFamily) =>
        /\ CoefficientBased
        /\ SumContributions(explanation.all_features) + explanation.base_value
              = LinearScore

\* The attributions are the vector's own values and the base value is 0.5:
\* what the fallback branch gives.
FallbackShaped ==
    /\ \A i \in 1..Len(explanation.all_features) :
          LET e == explanation.all_features[i]
          IN  e.shap_value = 100 * features_arg[PlaceOf(e)]
    /\ explanation.base_value = 5000

\* C13: every classifier that has per-feature coefficients and an intercept is
\* explained by the coefficient-based branch, none of them by the fallback
\* branch.
C13_LinearFamilyTakesCoefficientBranch ==
    (Explained /\ LinearFamily /\ Len(explanation.all_features) > 0) =>
        CoefficientBased /\ ~FallbackShaped

\* C14: when feature_names and the vector differ in length explain_prediction
\* raises ShapeMismatchError and returns no all_features.
C14_LengthMismatchRaises ==
    (/\ last_call = "explain_prediction"
     /\ Len(feature_names_arg) # Len(features_arg)) =>
        explanation.raised = "ShapeMismatchError"

\* The family of the classifier: linear (coefficients and an intercept), tree
\* ensemble, or neither.
Family ==
    IF classifier.has_coef_ THEN "linear"
    ELSE IF classifier.type \in {"RandomForestClassifier",
                                 "GradientBoostingClassifier"} THEN "tree"
    ELSE "other"

\* The explainer was called (on its own, or by the page once the prediction
\* was made).
ExplainerCalled ==
    \/ last_call = "explain_prediction"
    \/ last_call = "PredictPage.predict" /\ explanation.raised # "NotCalled"

\* C15: for a classifier of neither the linear nor the tree-ensemble family
\* explain_prediction does not raise, and every signed contribution it returns
\* is the value of the vector at the feature's place.
C15_UnsupportedModelFallsBack ==
    (ExplainerCalled /\ Family = "other") =>
        /\ explanation.raised = "None"
        /\ Len(explanation.all_features) =
              Min(Len(feature_names_arg), Len(features_arg))
        /\ \A i \in 1..Len(explanation.all_features) :
              LET e == explanation.all_features[i]
              IN  e.shap_value = 100 * features_arg[PlaceOf(e)]

C15_Witness ==
    /\ last_call = "explain_prediction"
    /\ classifier.type = "KNeighborsClassifier"
    /\ explanation.raised = "None"
    /\ features_arg = <<200, -100, 0>>
    /\ Len(feature_names_arg) = 3
    /\ explanation.all_features[1].shap_value = 20000
    /\ explanation.all_features[2].shap_value = -10000
    /\ explanation.all_features[3].shap_value = 0

\* The keys of an ExplanationResult that hold the attribution itself.
AttributionKeys == {"all_features", "top_factors", "explanations", "base_value"}

\* The classifier is one explain_prediction has no branch for.
FallbackTaken ==
    /\ Explained
    /\ classifier.type \notin {"LogisticRegression", "RandomForestClassifier"}

\* C16: a result of the fallback branch carries a marker, a key beside the
\* attribution itself, that tells it from a result of the other two branches.
C16_FallbackResultIsTagged ==
    FallbackTaken =>
        \E k \in DOMAIN explanation : k \notin AttributionKeys \cup {"raised"}

\* The record holds, under gender or subscription_type, a label the encoder of
\* that field was not fit on.
UnseenCategory ==
    \/ /\ "gender" \in DOMAIN customer_data
       /\ customer_data["gender"] \notin Range(ENCODERS.gender)
    \/ /\ "subscription_type" \in DOMAIN customer_data
       /\ customer_data["subscription_type"] \notin Range(ENCODERS.subscription_type)

\* C17: encoding a record whose gender or subscription_type is a label the
\* encoder was not fit on raises ValidationError and returns no vector.
C17_UnseenCategoryRaisesValidationError ==
    (last_call = "preprocess_customer_data" /\ UnseenCategory) =>
        /\ encoded.raised = "ValidationError"
        /\ encoded.value = <<>>

\* C18: predict_churn called without the artifacts, when a file of the three
\* is absent, raises ModelNotLoadedError, whatever the record is.
C18_MissingArtifactsRaiseModelNotLoaded ==
    (last_call = "predict_churn" /\ classifier = NoClassifier) =>
        prediction.raised = "ModelNotLoadedError"

\* The value the encoders give the raw value v of feature k.
EncodedValue(k, v) ==
    IF k = "gender" THEN 100 * LabelIndex(ENCODERS.gender, v)
    ELSE IF k = "subscription_type"
         THEN 100 * LabelIndex(ENCODERS.subscription_type, v)
    ELSE v

\* C19: whatever the order in which the record's keys were inserted, the row
\* given to the scaler is as long as feature_names and holds at place i the
\* encoded value of feature_names[i].
C19_VectorFollowsFeatureNames ==
    (last_call = "preprocess_customer_data" /\ encoded.raised = "None") =>
        /\ Len(encoded.features) = Len(feature_names_arg)
        /\ \A i \in 1..Len(feature_names_arg) :
              encoded.features[i] =
                  EncodedValue(feature_names_arg[i],
                               customer_data[feature_names_arg[i]])

C19_Witness ==
    /\ last_call = "preprocess_customer_data"
    /\ encoded.raised = "None"
    /\ feature_names_arg = <<"age", "gender", "subscription_type", "monthly_charges">>
    /\ key_order = <<"monthly_charges", "subscription_type", "age", "gender">>
    /\ encoded.features = <<2500, 100, 0, 1299>>

\* C20: predict_churn and preprocess_customer_data leave the caller's record
\* as it was, however they end: the same keys in the same order with the same
\* values, gender and subscription_type still labels; on the page the record
\* given to the explainer and to the recommender is the one that was read
\* from the form.
C20_RecordUnchanged ==
    /\ last_call \in {"predict_churn", "PredictPage.predict"} =>
          /\ record_after.assigned = {}
          /\ record_after.order = key_order
          /\ record_after.map = customer_data
    /\ (last_call = "PredictPage.predict" /\ explanation.raised = "None") =>
          original_arg = Dict(customer_data)

C20_Witness ==
    /\ last_call = "PredictPage.predict"
    /\ recommendation.raised = "None"
    /\ encoded.raised = "None"
    /\ encoded.features[2] = 0
    /\ encoded.features[3] = 100
    /\ record_after.map["gender"] = "Female"
    /\ record_after.map["subscription_type"] = "Premium"
    /\ original_arg.dict["gender"] = "Female"

\* The predictor has returned a prediction.
Predicted ==
    /\ last_call \in {"predict_churn", "PredictPage.predict"}
    /\ prediction.raised = "None"

\* C21: when the classifier has no predict_proba the probability is the label:
\* 1.0 and HIGH for Churn, 0.0 and LOW for Stay, never MODERATE.
C21_LabelStandsForProbability ==
    (Predicted /\ ~classifier.has_predict_proba) =>
        /\ prediction.prediction_label = "Churn" =>
              /\ prediction.churn_probability = 10000
              /\ prediction.risk_level = "HIGH"
        /\ prediction.prediction_label = "Stay" =>
              /\ prediction.churn_probability = 0
              /\ prediction.risk_level = "LOW"
        /\ prediction.prediction_label \in {"Churn", "Stay"}
        /\ prediction.risk_level # "MODERATE"
        /\ prediction.stay_probability = 10000 - prediction.churn_probability

C21_Witness ==
    /\ last_call = "predict_churn"
    /\ prediction.raised = "None"
    /\ classifier.type = "LinearSVC"
    /\ prediction.prediction_label = "Churn"
    /\ prediction.churn_probability = 10000
    /\ prediction.risk_level = "HIGH"

\* The actions of the tier's base list of the recommendation in hand.
BaseActions == Range(CHURN_RECOMMENDATIONS[recommendation.risk_level].actions)

\* C25: recommended_actions has 4 elements when no factor rule fires and 5
\* when one or more fire; when five or more fire none of them is an action of
\* the tier's base list.
C25_ActionCounts ==
    Recommended =>
        LET fired == {f \in FactorFeatureSet : Fires(f)}
            shown == recommendation.recommended_actions
        IN  /\ fired = {} => Len(shown) = 4
            /\ fired # {} => Len(shown) = 5
            /\ Cardinality(fired) >= 5 => Range(shown) \cap BaseActions = {}

C25_Witness ==
    /\ Recommended
    /\ Cardinality({f \in FactorFeatureSet : Fires(f)}) = 6
    /\ Len(recommendation.recommended_actions) = 5
    /\ Range(recommendation.recommended_actions) \cap BaseActions = {}

\* C26: in every attribution abs_shap_value is the absolute value of
\* shap_value, the direction is '+' and the sentence says 'increases' exactly
\* when shap_value > 0, and a contribution of zero is '-' and 'decreases'.
C26_AttributionConsistent ==
    Explained =>
        \A i \in 1..Len(explanation.all_features) :
            LET e == explanation.all_features[i]
            IN  /\ e.abs_shap_value >= 0
                /\ e.abs_shap_value \in {e.shap_value, 0 - e.shap_value}
                /\ (e.impact_direction = "+") <=> (e.shap_value > 0)
                /\ (e.explanation.impact = "increases") <=> (e.shap_value > 0)
                /\ e.impact_direction \in {"+", "-"}
                /\ e.explanation.impact \in {"increases", "decreases"}
                /\ e.shap_value = 0 =>
                      /\ e.impact_direction = "-"
                      /\ e.explanation.impact = "decreases"

C26_Witness ==
    /\ last_call = "explain_prediction"
    /\ explanation.raised = "None"
    /\ \E i, j, k \in 1..Len(explanation.all_features) :
          /\ explanation.all_features[i].shap_value = 0
          /\ explanation.all_features[i].impact_direction = "-"
          /\ explanation.all_features[j].shap_value > 0
          /\ explanation.all_features[j].impact_direction = "+"
          /\ explanation.all_features[k].shap_value < 0
          /\ explanation.all_features[k].explanation.impact = "decreases"

\* C27: when feature_names is as long as the contribution vector every feature
\* has exactly one attribution and no other feature has one; its value is the
\* record's raw value when the record holds the feature, else the scaled value
\* at the feature's place in the vector.
C27_OneAttributionPerFeature ==
    (Explained /\ Len(feature_names_arg) = Len(features_arg)) =>
        LET all == explanation.all_features
        IN  /\ Len(all) = Len(feature_names_arg)
            /\ \A i \in 1..Len(feature_names_arg) :
                  Cardinality({j \in 1..Len(all) :
                                  all[j].feature = feature_names_arg[i]}) = 1
            /\ \A j \in 1..Len(all) :
                  IF /\ ~original_arg.is_none
                     /\ all[j].feature \in DOMAIN original_arg.dict
                  THEN all[j].value = original_arg.dict[all[j].feature]
                  ELSE all[j].value = features_arg[PlaceOf(all[j])]

C27_Witness ==
    /\ last_call = "explain_prediction"
    /\ explanation.raised = "None"
    /\ Len(feature_names_arg) = 3
    /\ Len(explanation.all_features) = 3
    /\ original_arg = Dict(high_risk_customer)
    /\ explanation.all_features[1].feature = "subscription_type"
    /\ explanation.all_features[1].value = "Basic"

\* A session has begun and predict_churn was the last call of it.
SessionPredicted == session_log # <<>> /\ last_call = "predict_churn"

\* C22: for fixed artifacts and a fixed record, a predict_churn call at any
\* place of a sequence of pipeline calls ends as the first one did and returns
\* the same churn_probability, label and risk_level.
C22_RepeatedPredictionsAgree ==
    SessionPredicted =>
        /\ prediction.raised = first_results.predict_churn.raised
        /\ prediction.raised = "None" =>
              /\ prediction.churn_probability =
                     first_results.predict_churn.churn_probability
              /\ prediction.prediction = first_results.predict_churn.prediction
              /\ prediction.prediction_label =
                     first_results.predict_churn.prediction_label
              /\ prediction.risk_level = first_results.predict_churn.risk_level

C22_Witness ==
    /\ SessionPredicted
    /\ prediction.raised = "None"
    /\ Len(session_log) >= 3
    /\ session_log[1] = "predict_churn"
    /\ \E i \in 2..(Len(session_log) - 1) : session_log[i] # "predict_churn"

\* The rows of the uploaded table for which predict_churn raises.
FailingRows ==
    {i \in 1..Len(loaded_data.rows) :
        predict_churn(DictLiteral(loaded_data.rows[i]), TRUE, ArtifactFiles,
                      RandomForest, ENCODERS, FEATURE_NAMES, 0, 0).raised # "None"}

\* process_file has gone through a table that has every required column, with
\* the artifacts there.
BatchProcessed ==
    /\ last_call = "process_file"
    /\ ~uploaded_file.is_none
    /\ loaded_data.columns = required_columns
    /\ batch.files = ArtifactFiles

\* The i-th uploaded row is among the stored results, with its prediction,
\* probability and risk level.
RowHasResult(i) ==
    /\ ~prediction_results.is_none
    /\ \E j \in 1..Len(prediction_results.rows) :
          LET row == prediction_results.rows[j]
          IN  /\ {"prediction", "churn_probability_%", "risk_level"}
                     \subseteq DOMAIN row
              /\ \A k \in DOMAIN loaded_data.rows[i] : row[k] = loaded_data.rows[i][k]

\* C23: when one row of a batch fails in predict_churn, process_file still
\* stores for every other row its prediction, probability and risk level, and
\* shows the results.
C23_OtherRowsProcessed ==
    (/\ BatchProcessed
     /\ Cardinality(FailingRows) = 1
     /\ Len(loaded_data.rows) > 1) =>
        /\ batch.message = "Prediction Results"
        /\ \A i \in 1..Len(loaded_data.rows) : i \notin FailingRows => RowHasResult(i)

\* A session has begun.
InSession == session_log # <<>>

\* C24: after any sequence of predict_churn, explain_prediction and
\* generate_full_recommendation calls, and of callers changing the action lists
\* they were handed, the tables and the artifacts are as they were loaded and
\* a call returns what the first call with its arguments returned.
C24_NothingKeptBetweenCalls ==
    InSession =>
        /\ tables = StaticTables
        /\ artifacts = LoadedArtifacts
        /\ last_call = "predict_churn" => prediction = first_results.predict_churn
        /\ last_call = "explain_prediction" =>
               explanation = first_results.explain_prediction
        /\ last_call = "generate_full_recommendation" =>
               recommendation =
                   first_results.generate_full_recommendation[churn_probability]

C24_Witness ==
    /\ last_call = "generate_full_recommendation"
    /\ recommendation.raised = "None"
    /\ \E i, j \in 1..Len(session_log) :
          /\ i < j
          /\ j < Len(session_log)
          /\ session_log[i] = "generate_full_recommendation"
          /\ session_log[j] = "list mutated"

\* C28: whatever process_file calls were made, the uploaded table has the
\* columns and rows load_file read, and a call that ended on missing columns
\* left prediction_results as it found it.
C28_UploadedDataUntouched ==
    /\ uploaded_file.data = loaded_data
    /\ (last_call = "process_file" /\ batch.message = "Missing Columns") =>
           prediction_results = batch.results_before

C28_Witness ==
    /\ last_call = "process_file"
    /\ batch.message = "Missing Columns"
    /\ ~prediction_results.is_none
    /\ Len(prediction_results.rows) > 0

\* The places of the rows of result_data whose risk_level is current_filter.
MatchingRows ==
    {i \in 1..Len(result_data.rows) :
        result_data.rows[i].risk_level = current_filter}

\* C29: with results present, filtered_data is result_data when current_filter
\* is 'All' and otherwise exactly the rows of result_data whose risk_level is
\* current_filter, in their order; set_results leaves current_filter at 'All'.
C29_FilteredDataMatchesFilter ==
    /\ ~result_data.is_none =>
          IF current_filter = "All" THEN filtered_data = result_data
          ELSE /\ ~filtered_data.is_none
               /\ filtered_data.columns = result_data.columns
               /\ Len(filtered_data.rows) = Cardinality(MatchingRows)
               /\ \A j \in 1..Len(filtered_data.rows) :
                      \E i \in MatchingRows : filtered_data.rows[j] = result_data.rows[i]
               /\ \A j, k \in 1..Len(filtered_data.rows) :
                      j < k => filtered_data.rows[j].customer_id
                                   < filtered_data.rows[k].customer_id
    /\ last_call = "set_results" => current_filter = "All"

C29_Witness ==
    /\ last_call = "apply_filter"
    /\ current_filter = "HIGH"
    /\ Len(filtered_data.rows) = 2
    /\ Len(result_data.rows) = 3

\* C30: Tk holds at most one animate_step callback of the gauge at any time,
\* and no callback runs that was scheduled before the last animate_to or reset.
C30_OnePendingCallback ==
    /\ Cardinality(timers) <= 1
    /\ ~stale_ran

C30_Witness ==
    /\ cancelled >= 1
    /\ last_call = "animate_step"
    /\ timers # {}
    /\ commands >= 2

====
